---------------------------- MODULE Spec2Model ----------------------------
(***************************************************************************)
(* A model of the distribution validator of python-build-standalone        *)
(* (src/src/validation.rs and src/src/macho.rs).                           *)
(*                                                                         *)
(* The module holds several specifications over one set of variables.      *)
(* Each specification drives one part of the validator and leaves the      *)
(* variables of the other parts at the value Idle:                         *)
(*   SpecSymbols   RequiredSymbols::insert and RequiredSymbols::merge      *)
(*   SpecContext   ValidationContext::merge                                *)
(*   SpecVersion   MachOPackedVersion: TryFrom<&str> and Display           *)
(*   SpecElf       validate_elf on one ELF file                            *)
(*   SpecMacho     validate_macho on one Mach-O file                       *)
(*   SpecSdks      IndexedSdks::validate_context on one context            *)
(*   SpecResolver  the same call, on several contexts and indexes of SDKs  *)
(*   SpecExtensions  validate_extension_modules on one set of modules      *)
(*   SpecDistribution  validate_distribution on one distribution           *)
(*   SpecCommand   command_validate_distribution on several distributions  *)
(*   SpecPair      validate_distribution on one distribution, then on      *)
(*                 another that differs from it in one respect             *)
(***************************************************************************)
EXTENDS Integers, Sequences, FiniteSets, TLC

VARIABLES
    \* SpecSymbols: three RequiredSymbols tables and, for each, the set of
    \* (library, symbol, path) triples that were inserted into it so far.
    tables, inserted, inserts,
    \* SpecContext: three ValidationContexts and the number of merges done.
    ctxs, merges,
    \* SpecVersion: a version string, what TryFrom<&str> made of it, and what
    \* Display made of that.
    verInput, verPacked, verOutput, verPc,
    \* SpecElf: the arguments of one call of validate_elf, where the call is,
    \* and how it ended.
    elfArgs, elfResult, elfPc,
    \* SpecMacho: the same for one call of validate_macho.
    machoArgs, machoResult, machoPc,
    \* SpecSdks: the same for one call of IndexedSdks::validate_context.
    sdkArgs, sdkResult, sdkPc,
    \* SpecExtensions: the same for one call of validate_extension_modules.
    extArgs, extResult, extPc,
    \* SpecDistribution: the distribution validate_distribution is called on,
    \* its position, its local variables, the number of archive entries it
    \* took, the paths it handed to validate_possible_object_file, the checks
    \* it ran after the loop over the entries, and how it ended.
    dist, pc, locals, cursor, validated, checks, result,
    \* SpecCommand: the arguments of command_validate_distribution, where the
    \* command is, the number of paths it took, its variable success, what it
    \* printed for the paths it reported on, and how it ended.
    args, cmdPc, taken, success, reported, exit,
    \* SpecPair: the two distributions, and what validate_distribution returned
    \* for those it was called on so far.
    pair, returned

symbolVars == <<tables, inserted, inserts>>
contextVars == <<ctxs, merges>>
versionVars == <<verInput, verPacked, verOutput, verPc>>
elfVars == <<elfArgs, elfResult, elfPc>>
machoVars == <<machoArgs, machoResult, machoPc>>
sdkVars == <<sdkArgs, sdkResult, sdkPc>>
extVars == <<extArgs, extResult, extPc>>
distVars == <<dist, pc, locals, cursor, validated, checks, result>>
cmdVars == <<args, cmdPc, taken, success, reported, exit>>
pairVars == <<pair, returned>>

vars == <<tables, inserted, inserts, ctxs, merges, verInput, verPacked, verOutput, verPc,
          elfArgs, elfResult, elfPc, machoArgs, machoResult, machoPc,
          sdkArgs, sdkResult, sdkPc, extArgs, extResult, extPc,
          dist, pc, locals, cursor, validated, checks, result,
          args, cmdPc, taken, success, reported, exit, pair, returned>>

\* What each specification leaves alone.
notSymbolVars == <<contextVars, versionVars, elfVars, machoVars, sdkVars, distVars, cmdVars, pairVars, extVars>>
notContextVars == <<symbolVars, versionVars, elfVars, machoVars, sdkVars, distVars, cmdVars, pairVars, extVars>>
notVersionVars == <<symbolVars, contextVars, elfVars, machoVars, sdkVars, distVars, cmdVars, pairVars, extVars>>
notElfVars == <<symbolVars, contextVars, versionVars, machoVars, sdkVars, distVars, cmdVars, pairVars, extVars>>
notMachoVars == <<symbolVars, contextVars, versionVars, elfVars, sdkVars, distVars, cmdVars, pairVars, extVars>>
notSdkVars == <<symbolVars, contextVars, versionVars, elfVars, machoVars, distVars, cmdVars, pairVars, extVars>>
notExtVars == <<symbolVars, contextVars, versionVars, elfVars, machoVars, sdkVars, distVars, cmdVars, pairVars>>
\* The command and the pair call validate_distribution: they leave alone what
\* it leaves alone, and each other.
notCmdVars == <<symbolVars, contextVars, versionVars, elfVars, machoVars, sdkVars, pairVars, extVars>>
notPairVars == <<symbolVars, contextVars, versionVars, elfVars, machoVars, sdkVars, cmdVars, extVars>>
notDistVars == <<symbolVars, contextVars, versionVars, elfVars, machoVars, sdkVars, cmdVars, pairVars, extVars>>

Idle == "idle"

-----------------------------------------------------------------------------
(* Strings.  Rust's str and Path operations, on TLA+ strings.              *)

\* str::starts_with
StartsWith(s, p) == Len(s) >= Len(p) /\ SubSeq(s, 1, Len(p)) = p

\* str::ends_with
EndsWith(s, p) == Len(s) >= Len(p) /\ SubSeq(s, Len(s) - Len(p) + 1, Len(s)) = p

\* str::contains
Contains(s, p) == \E i \in 1..(Len(s) - Len(p) + 1) : SubSeq(s, i, i + Len(p) - 1) = p

\* str::find: the 1-based position of the first occurrence of p, 0 if none.
Find(s, p) ==
    LET hits == {i \in 1..(Len(s) - Len(p) + 1) : SubSeq(s, i, i + Len(p) - 1) = p}
    IN IF hits = {} THEN 0 ELSE CHOOSE i \in hits : \A j \in hits : i <= j

\* str::rfind: the 1-based position of the last occurrence of p, 0 if none.
RFind(s, p) ==
    LET hits == {i \in 1..(Len(s) - Len(p) + 1) : SubSeq(s, i, i + Len(p) - 1) = p}
    IN IF hits = {} THEN 0 ELSE CHOOSE i \in hits : \A j \in hits : i >= j

\* str::split(sep).collect::<Vec<_>>(): the parts between the separators, empty
\* parts included.
Split(s, sep) ==
    LET hits == {i \in 1..(Len(s) - Len(sep) + 1) : SubSeq(s, i, i + Len(sep) - 1) = sep}
        \* The parts of s from position i on.
        parts[i \in Nat] ==
            IF \A h \in hits : h < i THEN <<SubSeq(s, i, Len(s))>>
            ELSE <<SubSeq(s, i, (CHOOSE h \in hits : h >= i /\ \A g \in hits : g >= i => h <= g) - 1)>>
                 \o parts[(CHOOSE h \in hits : h >= i /\ \A g \in hits : g >= i => h <= g)
                              + Len(sep)]
    IN parts[1]

\* str::splitn(2, sep).collect::<Vec<_>>()
SplitN2(s, sep) ==
    LET i == Find(s, sep)
    IN IF i = 0 THEN <<s>>
       ELSE <<SubSeq(s, 1, i - 1), SubSeq(s, i + Len(sep), Len(s))>>

DecimalDigits == <<"0", "1", "2", "3", "4", "5", "6", "7", "8", "9">>

IsDigit(c) == \E d \in 1..10 : DecimalDigits[d] = c

DigitValue(c) == (CHOOSE d \in 1..10 : DecimalDigits[d] = c) - 1

AllDigits(s) == \A i \in 1..Len(s) : IsDigit(SubSeq(s, i, i))

\* The number a string of digits denotes.
RECURSIVE DigitsValue(_)
DigitsValue(s) ==
    IF Len(s) = 0 THEN 0
    ELSE 10 * DigitsValue(SubSeq(s, 1, Len(s) - 1)) + DigitValue(SubSeq(s, Len(s), Len(s)))

\* A failed parse.
ParseError == -1

\* u32::from_str: an optional '+', then one or more digits.  (A value of 2^32
\* or more is an error too; the strings of this model are shorter than that.)
U32FromStr(s) ==
    LET digits == IF StartsWith(s, "+") THEN SubSeq(s, 2, Len(s)) ELSE s
    IN IF Len(digits) = 0 \/ ~AllDigits(digits) THEN ParseError ELSE DigitsValue(digits)

\* format!("{}", n) of an unsigned number.
RECURSIVE FormatNumber(_)
FormatNumber(n) ==
    IF n < 10 THEN DecimalDigits[n + 1]
    ELSE FormatNumber(n \div 10) \o DecimalDigits[(n % 10) + 1]

\* The maps of the program (BTreeMap, HashMap) are functions on their key set.
EmptyMap == <<>>

MapPut(m, k, v) == [x \in (DOMAIN m) \cup {k} |-> IF x = k THEN v ELSE m[x]]

MapGetOr(m, k, default) == IF k \in DOMAIN m THEN m[k] ELSE default

-----------------------------------------------------------------------------
(* RequiredSymbols (macho.rs).                                             *)

\* LibrarySymbols::default()
LibrarySymbolsDefault == [symbols |-> EmptyMap]

\* RequiredSymbols::default()
RequiredSymbolsDefault == [libraries |-> EmptyMap]

\* A broken insert: the path set of an existing (library, symbol) is replaced.
RequiredSymbolsInsertOverwrites(self, library, symbol, path) ==
    LET entry == MapGetOr(self.libraries, library, LibrarySymbolsDefault)
    IN [libraries |-> MapPut(self.libraries, library,
            [symbols |-> MapPut(entry.symbols, symbol, {path})])]

\* RequiredSymbols::insert
\* self.libraries.entry(library).or_default().symbols.entry(symbol).or_default().insert(path)
RequiredSymbolsInsert(self, library, symbol, path) ==
    LET entry == MapGetOr(self.libraries, library, LibrarySymbolsDefault)
        paths == MapGetOr(entry.symbols, symbol, {})
    IN [libraries |-> MapPut(self.libraries, library,
            [symbols |-> MapPut(entry.symbols, symbol, paths \cup {path})])]

\* The inner loop of RequiredSymbols::merge:
\* for (name, paths) in symbols.symbols { entry.symbols.entry(name).or_default().extend(paths) }
RECURSIVE MergeSymbolsLoop(_, _, _)
MergeSymbolsLoop(entry, symbols, todo) ==
    IF todo = {} THEN entry
    ELSE LET name == CHOOSE n \in todo : TRUE
             paths == symbols.symbols[name]
             next == [symbols |-> MapPut(entry.symbols, name,
                         MapGetOr(entry.symbols, name, {}) \cup paths)]
         IN MergeSymbolsLoop(next, symbols, todo \ {name})

\* A broken merge: a library that both tables hold keeps only the other's symbols.
RequiredSymbolsMergeOverwrites(self, other) ==
    [libraries |-> [l \in (DOMAIN self.libraries) \cup (DOMAIN other.libraries) |->
        IF l \in DOMAIN other.libraries THEN other.libraries[l] ELSE self.libraries[l]]]

\* The outer loop of RequiredSymbols::merge:
\* for (library, symbols) in other.libraries { let entry = self.libraries.entry(library).or_default(); ... }
RECURSIVE MergeLibrariesLoop(_, _, _)
MergeLibrariesLoop(self, other, todo) ==
    IF todo = {} THEN self
    ELSE LET library == CHOOSE l \in todo : TRUE
             symbols == other.libraries[library]
             entry == MapGetOr(self.libraries, library, LibrarySymbolsDefault)
             merged == MergeSymbolsLoop(entry, symbols, DOMAIN symbols.symbols)
         IN MergeLibrariesLoop([libraries |-> MapPut(self.libraries, library, merged)],
                               other, todo \ {library})

\* RequiredSymbols::merge
RequiredSymbolsMerge(self, other) ==
    MergeLibrariesLoop(self, other, DOMAIN other.libraries)

\* LibrarySymbols::all_paths
AllPaths(ls) == UNION {ls.symbols[s] : s \in DOMAIN ls.symbols}

\* The (library, symbol, path) triples a table holds.
Triples(rs) ==
    UNION {UNION {{<<l, s, p>> : p \in rs.libraries[l].symbols[s]}
                  : s \in DOMAIN rs.libraries[l].symbols}
           : l \in DOMAIN rs.libraries}

-----------------------------------------------------------------------------
(* SpecSymbols: tables x, y and z are filled by insert and merged into one *)
(* another in any order.                                                   *)

MaxInserts == 4

TableNames == {"x", "y", "z"}
SymLibraries == {"A", "B"}
SymSymbols == {"s1", "s2"}
SymPaths == {"p1", "p2", "p3"}

\* The references that are inserted: two paths for one symbol, two symbols of
\* one library, two libraries.
SymReferences ==
    {<<"A", "s1", "p1">>, <<"A", "s1", "p2">>, <<"A", "s2", "p1">>, <<"B", "s2", "p3">>}

SymbolsInit ==
    /\ tables = [t \in TableNames |-> RequiredSymbolsDefault]
    /\ inserted = [t \in TableNames |-> {}]
    /\ inserts = 0

SymbolsIdle == tables = Idle /\ inserted = Idle /\ inserts = Idle

\* t.insert(library, symbol, path)
SymInsert(t, library, symbol, path) ==
    /\ inserts < MaxInserts
    /\ tables' = [tables EXCEPT ![t] = RequiredSymbolsInsert(@, library, symbol, path)]
    /\ inserted' = [inserted EXCEPT ![t] = @ \cup {<<library, symbol, path>>}]
    /\ inserts' = inserts + 1
    /\ UNCHANGED notSymbolVars

\* t.merge(u.clone())
SymMerge(t, u) ==
    /\ t # u
    /\ tables' = [tables EXCEPT ![t] = RequiredSymbolsMerge(@, tables[u])]
    /\ inserted' = [inserted EXCEPT ![t] = @ \cup inserted[u]]
    /\ UNCHANGED <<inserts, notSymbolVars>>

SymbolsNext ==
    \/ \E t \in TableNames, r \in SymReferences : SymInsert(t, r[1], r[2], r[3])
    \/ \E t \in TableNames, u \in TableNames : SymMerge(t, u)



(* C5: RequiredSymbols::merge is commutative and associative on the tables *)
(* the program can build, the merged table holds for every library and     *)
(* symbol the union of the two path sets, and the example of the spec      *)
(* gives {A: {s1: {p1,p2}}, B: {s2: {p3}}} in either order.                *)
PathsOf(rs, l, s) ==
    IF l \in DOMAIN rs.libraries /\ s \in DOMAIN rs.libraries[l].symbols
    THEN rs.libraries[l].symbols[s] ELSE {}

ExampleLeft == [libraries |-> [l \in {"A"} |-> [symbols |-> [s \in {"s1"} |-> {"p1"}]]]]

ExampleRight ==
    [libraries |-> [l \in {"A", "B"} |->
        IF l = "A" THEN [symbols |-> [s \in {"s1"} |-> {"p2"}]]
        ELSE [symbols |-> [s \in {"s2"} |-> {"p3"}]]]]

ExampleMerged ==
    [libraries |-> [l \in {"A", "B"} |->
        IF l = "A" THEN [symbols |-> [s \in {"s1"} |-> {"p1", "p2"}]]
        ELSE [symbols |-> [s \in {"s2"} |-> {"p3"}]]]]

C5_MergeAssociativeCommutative ==
    /\ \A t \in TableNames, u \in TableNames :
          LET a == tables[t]
              b == tables[u]
              ab == RequiredSymbolsMerge(a, b)
          IN /\ ab = RequiredSymbolsMerge(b, a)
             /\ DOMAIN ab.libraries = (DOMAIN a.libraries) \cup (DOMAIN b.libraries)
             /\ \A l \in SymLibraries, s \in SymSymbols :
                   PathsOf(ab, l, s) = PathsOf(a, l, s) \cup PathsOf(b, l, s)
    /\ LET a == tables["x"]
           b == tables["y"]
           c == tables["z"]
       IN RequiredSymbolsMerge(RequiredSymbolsMerge(a, b), c)
             = RequiredSymbolsMerge(a, RequiredSymbolsMerge(b, c))
    /\ (tables["x"] = ExampleLeft /\ tables["y"] = ExampleRight) =>
          /\ RequiredSymbolsMerge(tables["x"], tables["y"]) = ExampleMerged
          /\ RequiredSymbolsMerge(tables["y"], tables["x"]) = ExampleMerged

\* x.merge(y) has run on the example of the spec.
C5_Witness ==
    /\ tables["y"] = ExampleRight
    /\ tables["x"] = ExampleMerged
    /\ inserted["x"] = {<<"A", "s1", "p1">>, <<"A", "s1", "p2">>, <<"B", "s2", "p3">>}
    /\ tables["z"] = RequiredSymbolsDefault

(* C6: after any sequence of insert and merge, a table holds exactly the   *)
(* (library, symbol, path) triples that were inserted into it, directly or *)
(* through a merged table: none is lost and none is invented.              *)
C6_NoReferenceLost ==
    \A t \in TableNames :
        /\ Triples(tables[t]) = inserted[t]
        /\ \A l \in DOMAIN tables[t].libraries :
              \A s \in DOMAIN tables[t].libraries[l].symbols :
                  tables[t].libraries[l].symbols[s] # {}

\* A (library, symbol) that two different paths reference, after a merge
\* brought a triple in.
C6_Witness ==
    \E t \in TableNames, u \in TableNames :
        /\ t # u
        /\ inserted[u] # {}
        /\ inserted[u] \subseteq inserted[t]
        /\ inserted[u] # inserted[t]
        /\ \E l \in DOMAIN tables[t].libraries :
              \E s \in DOMAIN tables[t].libraries[l].symbols :
                  Cardinality(tables[t].libraries[l].symbols[s]) >= 2


-----------------------------------------------------------------------------
(* ValidationContext (validation.rs).                                      *)

\* ValidationContext::default()
ValidationContextDefault ==
    [errors |-> <<>>,
     seen_dylibs |-> {},
     libpython_exported_symbols |-> {},
     macho_undefined_symbols_strong |-> RequiredSymbolsDefault,
     macho_undefined_symbols_weak |-> RequiredSymbolsDefault]

\* A broken merge: the weakly referenced symbols of other are dropped.
ValidationContextMergeDropsWeak(self, other) ==
    [errors |-> self.errors \o other.errors,
     seen_dylibs |-> self.seen_dylibs \cup other.seen_dylibs,
     libpython_exported_symbols |->
         self.libpython_exported_symbols \cup other.libpython_exported_symbols,
     macho_undefined_symbols_strong |->
         RequiredSymbolsMerge(self.macho_undefined_symbols_strong,
                              other.macho_undefined_symbols_strong),
     macho_undefined_symbols_weak |-> self.macho_undefined_symbols_weak]

\* ValidationContext::merge
ValidationContextMerge(self, other) ==
    [errors |-> self.errors \o other.errors,
     seen_dylibs |-> self.seen_dylibs \cup other.seen_dylibs,
     libpython_exported_symbols |->
         self.libpython_exported_symbols \cup other.libpython_exported_symbols,
     macho_undefined_symbols_strong |->
         RequiredSymbolsMerge(self.macho_undefined_symbols_strong,
                              other.macho_undefined_symbols_strong),
     macho_undefined_symbols_weak |->
         RequiredSymbolsMerge(self.macho_undefined_symbols_weak,
                              other.macho_undefined_symbols_weak)]

\* context.errors.push(e)
PushError(context, e) == [context EXCEPT !.errors = Append(@, e)]

\* As ExtendErrors, but the errors that were recorded before are lost.
ExtendErrorsOverwrites(context, es) == [context EXCEPT !.errors = es]

\* context.errors.extend(es)
ExtendErrors(context, es) == [context EXCEPT !.errors = @ \o es]

-----------------------------------------------------------------------------
(* SpecContext: contexts a, b and c hold what validators record, and are   *)
(* merged into one another.                                                *)

MaxMerges == 1

ContextNames == {"a", "b", "c"}

\* What a validator records into an entry's context.
RECURSIVE Record(_, _)
Record(context, findings) ==
    IF findings = <<>> THEN context
    ELSE LET f == Head(findings)
             next ==
                 CASE f[1] = "error" -> PushError(context, f[2])
                   [] f[1] = "dylib" ->
                        [context EXCEPT !.seen_dylibs = @ \cup {f[2]}]
                   [] f[1] = "export" ->
                        [context EXCEPT !.libpython_exported_symbols = @ \cup {f[2]}]
                   [] f[1] = "strong" ->
                        [context EXCEPT !.macho_undefined_symbols_strong =
                            RequiredSymbolsInsert(@, f[2], f[3], f[4])]
                   [] f[1] = "weak" ->
                        [context EXCEPT !.macho_undefined_symbols_weak =
                            RequiredSymbolsInsert(@, f[2], f[3], f[4])]
         IN Record(next, Tail(findings))

ContextFindings ==
    {<<>>,
     <<<<"error", "e1">>>>,
     <<<<"error", "e2">>, <<"dylib", "/usr/lib/libSystem.B.dylib">>>>,
     <<<<"error", "e1">>, <<"error", "e2">>, <<"export", "Py_Initialize">>>>,
     <<<<"strong", "A", "s1", "p1">>, <<"weak", "B", "s2", "p3">>>>,
     <<<<"dylib", "/usr/lib/libz.1.dylib">>, <<"strong", "A", "s1", "p2">>,
       <<"weak", "B", "s2", "p1">>, <<"export", "PyList_New">>>>}

ContextInputs == {Record(ValidationContextDefault, f) : f \in ContextFindings}

ContextInit ==
    /\ ctxs \in [ContextNames -> ContextInputs]
    /\ merges = 0

ContextIdle == ctxs = Idle /\ merges = Idle

\* t.merge(u.clone())
CtxMerge(t, u) ==
    /\ t # u
    /\ merges < MaxMerges
    /\ ctxs' = [ctxs EXCEPT ![t] = ValidationContextMerge(@, ctxs[u])]
    /\ merges' = merges + 1
    /\ UNCHANGED notContextVars

ContextNext == \E t \in ContextNames, u \in ContextNames : CtxMerge(t, u)

\* How often e occurs in the list es.
Count(es, e) == Cardinality({i \in 1..Len(es) : es[i] = e})

\* The two lists hold the same entries the same number of times.
SameEntries(es, fs) ==
    /\ Len(es) = Len(fs)
    /\ \A i \in 1..Len(es) : Count(es, es[i]) = Count(fs, es[i])

\* The four components of a context that are sets or tables.
Unordered(context) ==
    <<context.seen_dylibs, context.libpython_exported_symbols,
      context.macho_undefined_symbols_strong, context.macho_undefined_symbols_weak>>

(* C4, as the claim states it: merging b into a gives the same context as  *)
(* merging a into b.  The error lists are concatenated in opposite orders. *)
C4_MergeCommutative ==
    \A t \in ContextNames, u \in ContextNames :
        ValidationContextMerge(ctxs[t], ctxs[u]) = ValidationContextMerge(ctxs[u], ctxs[t])

(* C4, amended: ValidationContext::merge is associative over the whole     *)
(* context; it is commutative on seen_dylibs, libpython_exported_symbols   *)
(* and the strong and weak tables, where it is the union; the error lists  *)
(* of a merge b and b merge a hold the same errors the same number of      *)
(* times, a's before b's in the first and after them in the second.        *)
C4_MergeAssociativeUnorderedCommutative ==
    /\ LET a == ctxs["a"]
           b == ctxs["b"]
           c == ctxs["c"]
       IN ValidationContextMerge(ValidationContextMerge(a, b), c)
             = ValidationContextMerge(a, ValidationContextMerge(b, c))
    /\ \A t \in ContextNames, u \in ContextNames :
          LET a == ctxs[t]
              b == ctxs[u]
              ab == ValidationContextMerge(a, b)
              ba == ValidationContextMerge(b, a)
          IN /\ Unordered(ab) = Unordered(ba)
             /\ ab.seen_dylibs = a.seen_dylibs \cup b.seen_dylibs
             /\ ab.libpython_exported_symbols =
                    a.libpython_exported_symbols \cup b.libpython_exported_symbols
             /\ Triples(ab.macho_undefined_symbols_strong) =
                    Triples(a.macho_undefined_symbols_strong)
                        \cup Triples(b.macho_undefined_symbols_strong)
             /\ Triples(ab.macho_undefined_symbols_weak) =
                    Triples(a.macho_undefined_symbols_weak)
                        \cup Triples(b.macho_undefined_symbols_weak)
             /\ ab.errors = a.errors \o b.errors
             /\ SameEntries(ab.errors, ba.errors)

\* a.merge(b) has run on contexts that both hold errors, dylibs and symbols.
C4_Witness ==
    /\ merges = 1
    /\ ctxs["a"].errors = <<"e2", "e1", "e2">>
    /\ ctxs["b"].errors = <<"e1", "e2">>
    /\ ctxs["a"].libpython_exported_symbols = {"Py_Initialize"}
    /\ ctxs["a"].seen_dylibs = {"/usr/lib/libSystem.B.dylib"}
    /\ Triples(ctxs["c"].macho_undefined_symbols_weak) = {<<"B", "s2", "p3">>}

-----------------------------------------------------------------------------
(* Option, Result and Path.                                                *)

\* Option<T>: None is the empty sequence, Some(x) the sequence of x alone.
None == <<>>
Some(x) == <<x>>
IsSome(o) == o # <<>>
Unwrap(o) == o[1]

\* Option<bool>::unwrap_or_default
UnwrapOrDefault(o) == IF IsSome(o) THEN Unwrap(o) ELSE FALSE

\* How a validator ends: Ok with the context it filled, Err (a failure that the
\* callers propagate with `?`, dropping the context), or a panic.
Ok(context) == [status |-> "ok", context |-> context]
Err == [status |-> "err"]
Panic == [status |-> "panic"]

\* Path::file_name of a path that does not end in a separator.
FileName(path) == SubSeq(path, RFind(path, "/") + 1, Len(path))

\* Path::parent of a path with at least two components.
Parent(path) == SubSeq(path, 1, RFind(path, "/") - 1)

-----------------------------------------------------------------------------
(* Policy tables of the ELF validator (validation.rs).                     *)

ELF_ALLOWED_LIBRARIES ==
    {"libc.so.6", "libdl.so.2", "libm.so.6", "libpthread.so.0", "librt.so.1", "libutil.so.1"}

\* version_compare::Version::from of a dotted number: the numbers between the
\* dots, empty parts skipped.
GlibcVersion(text) ==
    LET parts == SelectSeq(Split(text, "."), LAMBDA part : part # "")
    IN [i \in 1..Len(parts) |-> U32FromStr(parts[i])]

\* GLIBC_MAX_VERSION_BY_TRIPLE.get(triple)
GLIBC_MAX_VERSION_BY_TRIPLE(triple) ==
    CASE triple \in {"aarch64-unknown-linux-gnu", "armv7-unknown-linux-gnueabi",
                     "armv7-unknown-linux-gnueabihf", "i686-unknown-linux-gnu",
                     "ppc64le-unknown-linux-gnu", "s390x-unknown-linux-gnu",
                     "x86_64-unknown-linux-gnu", "x86_64_v2-unknown-linux-gnu",
                     "x86_64_v3-unknown-linux-gnu", "x86_64_v4-unknown-linux-gnu"} ->
            Some("2.17")
      [] triple \in {"mips-unknown-linux-gnu", "mipsel-unknown-linux-gnu",
                     "mips64el-unknown-linux-gnuabi64"} ->
            Some("2.19")
      [] triple \in {"x86_64-unknown-linux-musl", "x86_64_v2-unknown-linux-musl",
                     "x86_64_v3-unknown-linux-musl", "x86_64_v4-unknown-linux-musl"} ->
            Some("1")
      [] OTHER -> None

\* ELF_ALLOWED_LIBRARIES_BY_TRIPLE.get(triple)
ELF_ALLOWED_LIBRARIES_BY_TRIPLE(triple) ==
    CASE triple = "armv7-unknown-linux-gnueabi" -> Some({"ld-linux.so.3", "libgcc_s.so.1"})
      [] triple = "armv7-unknown-linux-gnueabihf" ->
            Some({"ld-linux-armhf.so.3", "libgcc_s.so.1"})
      [] triple = "i686-unknown-linux-gnu" -> Some({"ld-linux-x86-64.so.2"})
      [] triple \in {"mips-unknown-linux-gnu", "mipsel-unknown-linux-gnu"} ->
            Some({"ld.so.1", "libatomic.so.1"})
      [] triple = "mips64el-unknown-linux-gnuabi64" -> Some({})
      [] triple = "ppc64le-unknown-linux-gnu" -> Some({"ld64.so.1", "ld64.so.2"})
      [] triple = "s390x-unknown-linux-gnu" -> Some({"ld64.so.1"})
      [] triple \in {"x86_64-unknown-linux-gnu", "x86_64_v2-unknown-linux-gnu",
                     "x86_64_v3-unknown-linux-gnu", "x86_64_v4-unknown-linux-gnu"} ->
            Some({"ld-linux-x86-64.so.2"})
      [] OTHER -> None

ELF_BANNED_SYMBOLS == {"pthread_yield"}

DEPENDENCY_PACKAGE_SYMBOLS ==
    {"XClearWindow", "XFlush", "BIO_ADDR_new", "BN_new", "DH_new",
     "SSL_extension_supported", "SSL_read", "CRYPTO_memcmp", "ecp_nistz256_neg",
     "OPENSSL_instrument_bus", "x25519_fe64_add", "__txn_begin", "rl_prompt", "readline",
     "current_history", "history_expand", "ffi_call", "ffi_type_void", "new_field",
     "set_field_term", "set_menu_init", "winstr", "gdbm_close", "gdbm_import",
     "sqlite3_initialize", "sqlite3_close", "xcb_create_window", "xcb_get_property",
     "deflateEnd", "gzclose", "inflate", "Tix_DItemCreate", "Tix_GrFormat",
     "lzma_index_init", "lzma_stream_encoder", "Tcl_Alloc", "Tcl_ChannelName",
     "Tcl_CreateInterp", "TkBindInit", "TkCreateFrame", "Tk_FreeGC"}

\* e_machine values of the object crate.
EM_386 == 3
EM_MIPS == 8
EM_PPC64 == 21
EM_S390 == 22
EM_ARM == 40
EM_X86_64 == 62
EM_AARCH64 == 183

\* The match on target_triple in validate_elf; None is its panic arm.
ElfWantedCpuType(target_triple) ==
    CASE target_triple = "aarch64-unknown-linux-gnu" -> Some(EM_AARCH64)
      [] target_triple \in {"armv7-unknown-linux-gnueabi", "armv7-unknown-linux-gnueabihf"} ->
            Some(EM_ARM)
      [] target_triple = "i686-unknown-linux-gnu" -> Some(EM_386)
      [] target_triple \in {"mips-unknown-linux-gnu", "mipsel-unknown-linux-gnu"} ->
            Some(EM_MIPS)
      [] target_triple = "mips64el-unknown-linux-gnuabi64" -> Some(0)
      [] target_triple = "ppc64le-unknown-linux-gnu" -> Some(EM_PPC64)
      [] target_triple = "s390x-unknown-linux-gnu" -> Some(EM_S390)
      [] target_triple \in {"x86_64-unknown-linux-gnu", "x86_64_v2-unknown-linux-gnu",
                            "x86_64_v3-unknown-linux-gnu", "x86_64_v4-unknown-linux-gnu",
                            "x86_64-unknown-linux-musl", "x86_64_v2-unknown-linux-musl",
                            "x86_64_v3-unknown-linux-musl", "x86_64_v4-unknown-linux-musl"} ->
            Some(EM_X86_64)
      [] OTHER -> None

-----------------------------------------------------------------------------
(* validate_elf (validation.rs).                                           *)

\* The names of the links marked system in PYTHON.json: core links and the
\* links of every variant of every extension.
SystemLinks(json) ==
    {json.build_info.core.links[i].name :
        i \in {j \in DOMAIN json.build_info.core.links :
                  UnwrapOrDefault(json.build_info.core.links[j].system)}}
    \cup UNION {UNION {{json.build_info.extensions[e][v].links[i].name :
                          i \in {j \in DOMAIN json.build_info.extensions[e][v].links :
                                    UnwrapOrDefault(json.build_info.extensions[e][v].links[j].system)}}
                       : v \in DOMAIN json.build_info.extensions[e]}
                : e \in DOMAIN json.build_info.extensions}

\* A broken allow-list: libcrypt.so.1 is allowed for every file.
ElfAllowedLibrariesCryptForAll(target_triple, python_major_minor, path) ==
    ELF_ALLOWED_LIBRARIES
        \cup (IF IsSome(ELF_ALLOWED_LIBRARIES_BY_TRIPLE(target_triple))
              THEN Unwrap(ELF_ALLOWED_LIBRARIES_BY_TRIPLE(target_triple)) ELSE {})
        \cup {"$ORIGIN/../lib/libpython" \o python_major_minor \o ".so.1.0",
              "$ORIGIN/../lib/libpython" \o python_major_minor \o "d.so.1.0",
              "$ORIGIN/../lib/libpython" \o python_major_minor \o "t.so.1.0",
              "$ORIGIN/../lib/libpython" \o python_major_minor \o "td.so.1.0"}
        \cup {"libcrypt.so.1"}

\* allowed_libraries of validate_elf
ElfAllowedLibraries(target_triple, python_major_minor, path) ==
    ELF_ALLOWED_LIBRARIES
        \cup (IF IsSome(ELF_ALLOWED_LIBRARIES_BY_TRIPLE(target_triple))
              THEN Unwrap(ELF_ALLOWED_LIBRARIES_BY_TRIPLE(target_triple)) ELSE {})
        \cup {"$ORIGIN/../lib/libpython" \o python_major_minor \o ".so.1.0",
              "$ORIGIN/../lib/libpython" \o python_major_minor \o "d.so.1.0",
              "$ORIGIN/../lib/libpython" \o python_major_minor \o "t.so.1.0",
              "$ORIGIN/../lib/libpython" \o python_major_minor \o "td.so.1.0"}
        \cup (IF StartsWith(FileName(path), "_crypt") THEN {"libcrypt.so.1"} ELSE {})

\* A broken loop body: the name of the link is what stands before the first
\* ".so" of the name of the library.
ElfNeededToFirstSo(context, json, target_triple, python_major_minor, path, lib) ==
    LET c1 == IF lib \notin ElfAllowedLibraries(target_triple, python_major_minor, path)
              THEN PushError(context, path \o " loads illegal library " \o lib)
              ELSE context
        requires_annotation ==
            /\ ~Contains(lib, "libpython")
            /\ ~StartsWith(lib, "ld-linux")
            /\ ~StartsWith(lib, "ld64.so")
            /\ ~StartsWith(lib, "ld.so")
            /\ ~StartsWith(lib, "libc.so")
            /\ ~StartsWith(lib, "libgcc_s.so")
    IN IF ~requires_annotation THEN c1
       ELSE IF ~StartsWith(lib, "lib")
            THEN PushError(c1, path \o " library load of " \o lib
                                  \o " does not begin with lib")
       ELSE IF Find(lib, ".so") = 0
            THEN PushError(c1, path \o " library load of " \o lib
                                  \o " does not have .so extension")
       ELSE IF SubSeq(lib, 4, Find(lib, ".so") - 1) \notin SystemLinks(json)
            THEN PushError(c1, path \o " library load of " \o lib
                                  \o " does not have system link build annotation")
       ELSE c1

\* The body of the loop over the dynamic entries, for one DT_NEEDED entry.
ElfNeeded(context, json, target_triple, python_major_minor, path, lib) ==
    LET c1 == IF lib \notin ElfAllowedLibraries(target_triple, python_major_minor, path)
              THEN PushError(context, path \o " loads illegal library " \o lib)
              ELSE context
        requires_annotation ==
            /\ ~Contains(lib, "libpython")
            /\ ~StartsWith(lib, "ld-linux")
            /\ ~StartsWith(lib, "ld64.so")
            /\ ~StartsWith(lib, "ld.so")
            /\ ~StartsWith(lib, "libc.so")
            /\ ~StartsWith(lib, "libgcc_s.so")
    IN IF ~requires_annotation THEN c1
       ELSE IF ~StartsWith(lib, "lib")
            THEN PushError(c1, path \o " library load of " \o lib
                                  \o " does not begin with lib")
       ELSE IF RFind(lib, ".so") = 0
            THEN PushError(c1, path \o " library load of " \o lib
                                  \o " does not have .so extension")
       ELSE IF SubSeq(lib, 4, RFind(lib, ".so") - 1) \notin SystemLinks(json)
            THEN PushError(c1, path \o " library load of " \o lib
                                  \o " does not have system link build annotation")
       ELSE c1

\* The loop over the entries of a dynamic section.
RECURSIVE ElfDynamicEntries(_, _, _, _, _, _)
ElfDynamicEntries(context, json, target_triple, python_major_minor, path, entries) ==
    IF entries = <<>> THEN context
    ELSE LET entry == Head(entries)
             next == IF entry.tag = "DT_NEEDED"
                     THEN ElfNeeded(context, json, target_triple, python_major_minor,
                                    path, entry.val)
                     ELSE context
         IN ElfDynamicEntries(next, json, target_triple, python_major_minor, path,
                              Tail(entries))

\* version_compare: a > b, the shorter version padded with zeros.
RECURSIVE VersionGreater(_, _)
VersionGreater(a, b) ==
    IF a = <<>> /\ b = <<>> THEN FALSE
    ELSE LET x == IF a = <<>> THEN 0 ELSE Head(a)
             y == IF b = <<>> THEN 0 ELSE Head(b)
         IN IF x # y THEN x > y
            ELSE VersionGreater(IF a = <<>> THEN a ELSE Tail(a),
                                IF b = <<>> THEN b ELSE Tail(b))

\* A broken comparison: a symbol at the ceiling is too new as well.
GlibcTooNewAtCeiling(version, wanted_glibc_max_version) ==
    LET parts == SplitN2(version, "_")
    IN /\ Len(parts) = 2
       /\ parts[1] = "GLIBC"
       /\ ~VersionGreater(GlibcVersion(wanted_glibc_max_version), GlibcVersion(parts[2]))

\* let parts = version.splitn(2, '_'); parts.len() == 2 && parts[0] == "GLIBC" &&
\* Version::from(parts[1]) > wanted_glibc_max_version
GlibcTooNew(version, wanted_glibc_max_version) ==
    LET parts == SplitN2(version, "_")
    IN /\ Len(parts) = 2
       /\ parts[1] = "GLIBC"
       /\ VersionGreater(GlibcVersion(parts[2]), GlibcVersion(wanted_glibc_max_version))

\* The body of the loop over the symbols of a section, for one symbol.
ElfSymbol(context, target_triple, path, elf, section, symbol) ==
    LET wanted_glibc_max_version == Unwrap(GLIBC_MAX_VERSION_BY_TRIPLE(target_triple))
        version_version ==
            IF section.sh_type = "SHT_DYNSYM" THEN symbol.version ELSE None
        c1 == IF symbol.undefined /\ symbol.name \in ELF_BANNED_SYMBOLS
              THEN PushError(context, path \o " defines banned ELF symbol " \o symbol.name)
              ELSE context
        c2 == IF /\ symbol.undefined
                 /\ IsSome(version_version)
                 /\ GlibcTooNew(Unwrap(version_version), wanted_glibc_max_version)
              THEN PushError(c1, path \o " references too new glibc symbol \""
                                   \o symbol.name \o "\" ("
                                   \o SplitN2(Unwrap(version_version), "_")[2]
                                   \o " > " \o wanted_glibc_max_version \o ")")
              ELSE c1
        dynamic == elf.e_type \in {"ET_EXEC", "ET_DYN"}
        c3 == IF /\ dynamic
                 /\ symbol.name \in DEPENDENCY_PACKAGE_SYMBOLS
                 /\ symbol.st_bind \in {"STB_GLOBAL", "STB_WEAK"}
                 /\ symbol.st_visibility # "STV_HIDDEN"
              THEN PushError(c2, path \o " contains non-hidden dependency symbol "
                                   \o symbol.name)
              ELSE c2
    IN IF /\ dynamic
          /\ StartsWith(FileName(path), "libpython")
          /\ EndsWith(FileName(path), ".so.1.0")
          /\ symbol.st_bind \in {"STB_GLOBAL", "STB_WEAK"}
          /\ symbol.st_visibility = "STV_DEFAULT"
       THEN [c3 EXCEPT !.libpython_exported_symbols = @ \cup {symbol.name}]
       ELSE c3

\* The loop over the symbols of a section.
RECURSIVE ElfSymbols(_, _, _, _, _, _)
ElfSymbols(context, target_triple, path, elf, section, symbols) ==
    IF symbols = <<>> THEN context
    ELSE ElfSymbols(ElfSymbol(context, target_triple, path, elf, section, Head(symbols)),
                    target_triple, path, elf, section, Tail(symbols))

\* The loop over the sections: the dynamic entries of a section, then its symbols.
\* A section whose table cannot be read ends validate_elf with Err.
RECURSIVE ElfSections(_, _, _, _, _, _, _)
ElfSections(context, json, target_triple, python_major_minor, path, elf, sections) ==
    IF sections = <<>> THEN Ok(context)
    ELSE LET section == Head(sections)
             c1 == IF section.sh_type = "SHT_DYNAMIC"
                   THEN ElfDynamicEntries(context, json, target_triple, python_major_minor,
                                          path, section.entries)
                   ELSE context
             c2 == IF section.sh_type \in {"SHT_DYNSYM", "SHT_SYMTAB"}
                   THEN ElfSymbols(c1, target_triple, path, elf, section, section.symbols)
                   ELSE c1
         IN IF section.corrupt THEN Err
            ELSE ElfSections(c2, json, target_triple, python_major_minor, path, elf,
                             Tail(sections))

\* validate_elf
ValidateElf(context, json, target_triple, python_major_minor, path, elf) ==
    LET wanted_cpu_type == ElfWantedCpuType(target_triple)
        c1 == IF elf.e_machine # Unwrap(wanted_cpu_type)
              THEN PushError(context, "invalid ELF machine type in " \o path \o "; wanted "
                                        \o FormatNumber(Unwrap(wanted_cpu_type)) \o ", got "
                                        \o FormatNumber(elf.e_machine))
              ELSE context
    IN IF ~IsSome(wanted_cpu_type) THEN Panic
       ELSE IF ~IsSome(GLIBC_MAX_VERSION_BY_TRIPLE(target_triple)) THEN Panic
       ELSE IF elf.sections_corrupt THEN Err
       ELSE ElfSections(c1, json, target_triple, python_major_minor, path, elf, elf.sections)

-----------------------------------------------------------------------------
(* SpecElf: validate_elf is called once on an ELF file.                    *)

\* The most sections an ELF file of this specification has.
MaxSections == 2

DynamicSection(entries) ==
    [sh_type |-> "SHT_DYNAMIC", entries |-> entries, symbols |-> <<>>, corrupt |-> FALSE]

SymbolSection(sh_type, symbols) ==
    [sh_type |-> sh_type, entries |-> <<>>, symbols |-> symbols, corrupt |-> FALSE]

Needed(lib) == [tag |-> "DT_NEEDED", val |-> lib]

Undefined(name, version) ==
    [name |-> name, undefined |-> TRUE, version |-> version,
     st_bind |-> "STB_GLOBAL", st_visibility |-> "STV_DEFAULT"]

Defined(name, version, st_bind, st_visibility) ==
    [name |-> name, undefined |-> FALSE, version |-> version,
     st_bind |-> st_bind, st_visibility |-> st_visibility]

\* The sections the ELF files of this specification are made of.
ElfSectionPalette ==
    {DynamicSection(<<Needed("libc.so.6"), Needed("ld-linux-x86-64.so.2")>>),
     DynamicSection(<<Needed("libm.so.6"), Needed("ld.so.1")>>),
     DynamicSection(<<Needed("libfoo.so.1"), [tag |-> "DT_SONAME", val |-> "libbar.so.1"]>>),
     DynamicSection(<<Needed("$ORIGIN/../lib/libpython3.9.so.1.0")>>),
     DynamicSection(<<Needed("libpython3.9.so.1.0")>>),
     DynamicSection(<<Needed("libcrypt.so.1")>>),
     SymbolSection("SHT_DYNSYM", <<Undefined("memcpy", Some("GLIBC_2.17")),
                                   Undefined("getrandom", Some("GLIBC_2.18"))>>),
     SymbolSection("SHT_DYNSYM", <<Undefined("malloc", Some("GLIBC_2.2.5")),
                                   Undefined("sem_wait", Some("GLIBC_2.9"))>>),
     SymbolSection("SHT_DYNSYM", <<Defined("getrandom", Some("GLIBC_2.18"),
                                           "STB_GLOBAL", "STV_DEFAULT"),
                                   Undefined("_Znwm", Some("GLIBCXX_3.4")),
                                   Undefined("PyInit_x", None)>>),
     SymbolSection("SHT_SYMTAB", <<Undefined("pthread_yield", Some("GLIBC_2.18")),
                                   Defined("SSL_read", None, "STB_GLOBAL", "STV_DEFAULT"),
                                   Defined("ffi_call", None, "STB_WEAK", "STV_HIDDEN")>>),
     [sh_type |-> "SHT_DYNAMIC", entries |-> <<>>, symbols |-> <<>>, corrupt |-> TRUE]}

\* The sequences of at most n sections.
RECURSIVE SectionLists(_)
SectionLists(n) ==
    IF n = 0 THEN {<<>>}
    ELSE SectionLists(n - 1)
         \cup {Append(l, x) : l \in {m \in SectionLists(n - 1) : Len(m) = n - 1},
                              x \in ElfSectionPalette}

\* The headers of the ELF files: a shared library for x86-64, a relocatable
\* object for MIPS, and a file whose section table is unreadable.
ElfHeaders ==
    {[e_machine |-> EM_X86_64, e_type |-> "ET_DYN", sections_corrupt |-> FALSE],
     [e_machine |-> EM_MIPS, e_type |-> "ET_REL", sections_corrupt |-> FALSE],
     [e_machine |-> EM_X86_64, e_type |-> "ET_EXEC", sections_corrupt |-> TRUE]}

\* The sections of files that need libraries with ".so" twice in their name,
\* without "lib" at its start, without ".so", and the libraries of the
\* compiler and of the dynamic linker.
ElfNeededSections ==
    {<<DynamicSection(<<Needed("libiso.solver.so.1"), Needed("libm.so.6"),
                        Needed("libm.so.6")>>)>>,
     <<DynamicSection(<<Needed("crypt.so.1"), Needed("libfoo.dylib"), Needed("foo")>>)>>,
     <<DynamicSection(<<Needed("libgcc_s.so.1"), Needed("ld64.so.2"),
                        Needed("libcrypt.so.1"), Needed("libfoo.so.1")>>)>>}

ElfFiles ==
    {[e_machine |-> h.e_machine, e_type |-> h.e_type,
      sections_corrupt |-> h.sections_corrupt, sections |-> l] :
        h \in ElfHeaders, l \in SectionLists(MaxSections) \cup ElfNeededSections}

ElfTriples ==
    {"x86_64-unknown-linux-gnu", "mips-unknown-linux-gnu", "x86_64-unknown-linux-musl",
     "aarch64-apple-darwin"}

ElfPythonVersions == {"3.9", "3.12"}

ElfPaths ==
    {"python/install/lib/libpython3.9.so.1.0",
     "python/install/lib/python3.9/lib-dynload/_crypt.cpython-39-x86_64-linux-gnu.so",
     "python/install/bin/python3.9"}

\* The part of PYTHON.json validate_elf reads: the links of the core and of the
\* extension variants.
ElfJsons ==
    {[build_info |->
        [core |-> [links |-> <<[name |-> "m", system |-> Some(TRUE)],
                               [name |-> "foo", system |-> None],
                               [name |-> "iso.solver", system |-> Some(TRUE)]>>],
         extensions |-> EmptyMap]],
     [build_info |->
        [core |-> [links |-> <<[name |-> "m", system |-> Some(FALSE)]>>],
         extensions |->
            [e \in {"_crypt"} |->
                <<[links |-> <<[name |-> "crypt", system |-> Some(TRUE)]>>]>>]]]}

ElfInputs ==
    [json : ElfJsons, target_triple : ElfTriples, python_major_minor : ElfPythonVersions,
     path : ElfPaths, elf : ElfFiles]

ElfInit ==
    /\ elfArgs \in ElfInputs
    /\ elfResult = None
    /\ elfPc = "call"

ElfIdle == elfArgs = Idle /\ elfResult = Idle /\ elfPc = Idle

\* validate_elf(&mut context, json, target_triple, python_major_minor, path, elf, data)
\* on a fresh context, as validate_possible_object_file calls it.
ElfValidate ==
    /\ elfPc = "call"
    /\ elfResult' = Some(ValidateElf(ValidationContextDefault, elfArgs.json,
                                     elfArgs.target_triple, elfArgs.python_major_minor,
                                     elfArgs.path, elfArgs.elf))
    /\ elfPc' = "done"
    /\ UNCHANGED elfArgs
    /\ UNCHANGED notElfVars

ElfNext == ElfValidate

\* The call returned Ok: its errors are the ones the caller receives.
ElfReturnedOk == elfPc = "done" /\ Unwrap(elfResult).status = "ok"

ElfErrors == Unwrap(elfResult).context.errors

\* Where the DT_NEEDED entries of the file are: (section, entry) positions.
ElfNeededPositions ==
    UNION {{<<s, e>> : e \in {i \in DOMAIN elfArgs.elf.sections[s].entries :
                                elfArgs.elf.sections[s].entries[i].tag = "DT_NEEDED"}}
           : s \in DOMAIN elfArgs.elf.sections}

ElfNeededAt(p) == elfArgs.elf.sections[p[1]].entries[p[2]].val

\* The allow-list as the specification words it, the libpython names behind
\* the given prefix.
ElfAllowedNames(prefix) ==
    ELF_ALLOWED_LIBRARIES
        \cup (IF IsSome(ELF_ALLOWED_LIBRARIES_BY_TRIPLE(elfArgs.target_triple))
              THEN Unwrap(ELF_ALLOWED_LIBRARIES_BY_TRIPLE(elfArgs.target_triple)) ELSE {})
        \cup {prefix \o "libpython" \o elfArgs.python_major_minor \o suffix \o ".so.1.0" :
                suffix \in {"", "d", "t", "td"}}
        \cup (IF StartsWith(FileName(elfArgs.path), "_crypt") THEN {"libcrypt.so.1"} ELSE {})

\* The number of 'loads illegal library' errors is, for every needed name, the
\* number of DT_NEEDED entries of that name if the name is not allowed, else 0.
ElfIllegalLibraryErrors(allowed) ==
    \A p \in ElfNeededPositions :
        Count(ElfErrors, elfArgs.path \o " loads illegal library " \o ElfNeededAt(p))
            = IF ElfNeededAt(p) \in allowed THEN 0
              ELSE Cardinality({q \in ElfNeededPositions : ElfNeededAt(q) = ElfNeededAt(p)})

\* C10 as stated: validate_elf reports exactly one 'loads illegal library' error
\* for each DT_NEEDED entry whose name is not allowed and none for an allowed
\* name, the allowed names being the global list, the triple's extras, the bare
\* names libpython{M.m}[d|t|td].so.1.0, and libcrypt.so.1 for _crypt* files only.
C10_IllegalLibraryBareNames ==
    ElfReturnedOk => ElfIllegalLibraryErrors(ElfAllowedNames(""))

\* C10, amended: the same, the allowed libpython names being
\* $ORIGIN/../lib/libpython{M.m}[d|t|td].so.1.0; a bare libpython{M.m}.so.1.0
\* is reported as illegal.
C10_IllegalLibraryOriginNames ==
    ElfReturnedOk =>
        /\ ElfIllegalLibraryErrors(ElfAllowedNames("$ORIGIN/../lib/"))
        /\ \A i \in 1..Len(ElfErrors) :
              Contains(ElfErrors[i], " loads illegal library ") =>
                  \E p \in ElfNeededPositions :
                      ElfErrors[i] = elfArgs.path \o " loads illegal library " \o ElfNeededAt(p)

\* A Python 3.9 file that needs libfoo.so.1, the bare libpython3.9.so.1.0 and
\* libcrypt.so.1 was validated and the three were reported.
C10_Witness ==
    /\ ElfReturnedOk
    /\ elfArgs.python_major_minor = "3.9"
    /\ ~StartsWith(FileName(elfArgs.path), "_crypt")
    /\ \E p, q \in ElfNeededPositions :
          ElfNeededAt(p) = "libpython3.9.so.1.0" /\ ElfNeededAt(q) = "libcrypt.so.1"
    /\ Count(ElfErrors, elfArgs.path \o " loads illegal library libpython3.9.so.1.0") = 1
    /\ Count(ElfErrors, elfArgs.path \o " loads illegal library libcrypt.so.1") = 1

\* Where the undefined, GLIBC-versioned symbols of the dynamic symbol tables
\* are: (section, symbol) positions.
ElfGlibcPositions ==
    UNION {{<<s, y>> : y \in {i \in DOMAIN elfArgs.elf.sections[s].symbols :
                                /\ elfArgs.elf.sections[s].sh_type = "SHT_DYNSYM"
                                /\ elfArgs.elf.sections[s].symbols[i].undefined
                                /\ IsSome(elfArgs.elf.sections[s].symbols[i].version)
                                /\ StartsWith(Unwrap(elfArgs.elf.sections[s].symbols[i].version),
                                              "GLIBC_")}}
           : s \in DOMAIN elfArgs.elf.sections}

ElfSymbolAt(p) == elfArgs.elf.sections[p[1]].symbols[p[2]]

\* The X.Y of a GLIBC_X.Y version.
ElfGlibcOf(symbol) == SubSeq(Unwrap(symbol.version), 7, Len(Unwrap(symbol.version)))

ElfCeiling == Unwrap(GLIBC_MAX_VERSION_BY_TRIPLE(elfArgs.target_triple))

\* The i-th number of a version, 0 past its end.
Component(v, i) == IF i <= Len(v) THEN v[i] ELSE 0

\* a is strictly greater than b: at the first place they differ, a is greater.
StrictlyGreater(a, b) ==
    \E i \in 1..(Len(a) + Len(b)) :
        /\ Component(a, i) > Component(b, i)
        /\ \A j \in 1..(i - 1) : Component(a, j) = Component(b, j)

ElfTooNewMessage(symbol) ==
    elfArgs.path \o " references too new glibc symbol \"" \o symbol.name \o "\" ("
        \o ElfGlibcOf(symbol) \o " > " \o ElfCeiling \o ")"

\* C9: for every undefined dynamic symbol versioned GLIBC_X.Y, validate_elf
\* reports 'references too new glibc symbol' if and only if X.Y is strictly
\* greater than the ceiling of the target triple; GLIBC_2.18 against 2.17 is an
\* error, GLIBC_2.17 is not, and there is no other such error.
C9_GlibcCeiling ==
    ElfReturnedOk =>
        /\ \A p \in ElfGlibcPositions :
              Count(ElfErrors, ElfTooNewMessage(ElfSymbolAt(p)))
                  = IF StrictlyGreater(GlibcVersion(ElfGlibcOf(ElfSymbolAt(p))),
                                       GlibcVersion(ElfCeiling))
                    THEN Cardinality({q \in ElfGlibcPositions :
                                         ElfSymbolAt(q) = ElfSymbolAt(p)})
                    ELSE 0
        /\ \A i \in 1..Len(ElfErrors) :
              Contains(ElfErrors[i], " references too new glibc symbol ") =>
                  \E p \in ElfGlibcPositions : ElfErrors[i] = ElfTooNewMessage(ElfSymbolAt(p))
        /\ ElfCeiling = "2.17" =>
              \A p \in ElfGlibcPositions :
                  /\ ElfGlibcOf(ElfSymbolAt(p)) = "2.18" =>
                        Count(ElfErrors, ElfTooNewMessage(ElfSymbolAt(p))) >= 1
                  /\ ElfGlibcOf(ElfSymbolAt(p)) = "2.17" =>
                        Count(ElfErrors, ElfTooNewMessage(ElfSymbolAt(p))) = 0

\* A file for a triple with ceiling 2.17 that refers to memcpy@GLIBC_2.17 and
\* getrandom@GLIBC_2.18 was validated, and only the second was reported.
C9_Witness ==
    /\ ElfReturnedOk
    /\ ElfCeiling = "2.17"
    /\ \E p, q \in ElfGlibcPositions :
          /\ ElfGlibcOf(ElfSymbolAt(p)) = "2.17"
          /\ ElfGlibcOf(ElfSymbolAt(q)) = "2.18"
          /\ Count(ElfErrors, ElfTooNewMessage(ElfSymbolAt(p))) = 0
          /\ Count(ElfErrors, ElfTooNewMessage(ElfSymbolAt(q))) = 1

-----------------------------------------------------------------------------
(* MachOPackedVersion (macho.rs).  The u32 value is kept as its two 16-bit *)
(* halves, value = hi * 2^16 + lo.                                         *)

TwoTo8 == 256
TwoTo16 == 65536

\* (major << 16) | ((minor & 0xff) << 8) | (subminor & 0xff) in u32: the bits of
\* major above the 16th are shifted out.
PackVersion(major, minor, subminor) ==
    [hi |-> major % TwoTo16, lo |-> (minor % TwoTo8) * TwoTo8 + (subminor % TwoTo8)]

\* impl TryFrom<&str> for MachOPackedVersion
PackedVersionTryFrom(value) ==
    LET parts == Split(value, ".")
    IN IF Len(parts) # 3 THEN [ok |-> FALSE]
       ELSE LET major == U32FromStr(parts[1])
                minor == U32FromStr(parts[2])
                subminor == U32FromStr(parts[3])
            IN IF major = ParseError \/ minor = ParseError \/ subminor = ParseError
               THEN [ok |-> FALSE]
               ELSE [ok |-> TRUE, value |-> PackVersion(major, minor, subminor)]

\* impl From<u32> for MachOPackedVersion
PackedVersionFrom(value) == value

\* A broken Display: the minor component is not masked to its byte.
PackedVersionDisplayUnmasked(self) ==
    FormatNumber(self.hi) \o "." \o FormatNumber(self.hi * TwoTo8 + self.lo \div TwoTo8)
        \o "." \o FormatNumber(self.lo % TwoTo8)

\* impl Display for MachOPackedVersion:
\* major = value >> 16, minor = (value >> 8) & 0xff, subminor = value & 0xff
PackedVersionDisplay(self) ==
    FormatNumber(self.hi) \o "." \o FormatNumber((self.lo \div TwoTo8) % TwoTo8)
        \o "." \o FormatNumber(self.lo % TwoTo8)

\* A broken comparison: a version equal to the ceiling counts as greater.
PackedVersionGreaterOrEqual(a, b) == a.hi > b.hi \/ (a.hi = b.hi /\ a.lo >= b.lo)

\* #[derive(PartialOrd)] on the u32 value: a > b
PackedVersionGreater(a, b) == a.hi > b.hi \/ (a.hi = b.hi /\ a.lo > b.lo)

-----------------------------------------------------------------------------
(* SpecVersion: a version string is parsed and the result is formatted.    *)

MaxLeadingZeros == 1

\* Component values at and around the limits of the packed fields.
VersionNumbers == {0, 3, 9, 10, 255, 256, 65535, 65536}

RECURSIVE Zeros(_)
Zeros(n) == IF n = 0 THEN "" ELSE "0" \o Zeros(n - 1)

\* The ways a component is written: plain, with leading zeros, with a sign.
VersionComponents ==
    {Zeros(z) \o FormatNumber(n) : z \in 0..MaxLeadingZeros, n \in VersionNumbers}
        \cup {"+" \o FormatNumber(n) : n \in VersionNumbers}

VersionInputs ==
    {a \o "." \o b \o "." \o c :
        a \in VersionComponents, b \in VersionComponents, c \in VersionComponents}
    \cup {"", "3", "3.9", "3.9.1.0", "3..1", "3.9.", "3.x.1", "-3.9.1", "3.9.1 "}

VersionInit ==
    /\ verInput \in VersionInputs
    /\ verPacked = [ok |-> FALSE]
    /\ verOutput = ""
    /\ verPc = "input"

VersionIdle == verInput = Idle /\ verPacked = Idle /\ verOutput = Idle /\ verPc = Idle

\* MachOPackedVersion::try_from(verInput)
VerParse ==
    /\ verPc = "input"
    /\ verPacked' = PackedVersionTryFrom(verInput)
    /\ verPc' = IF verPacked'.ok THEN "parsed" ELSE "rejected"
    /\ UNCHANGED <<verInput, verOutput, notVersionVars>>

\* format!("{}", version)
VerFormat ==
    /\ verPc = "parsed"
    /\ verOutput' = PackedVersionDisplay(verPacked.value)
    /\ verPc' = "formatted"
    /\ UNCHANGED <<verInput, verPacked, notVersionVars>>

VersionNext == VerParse \/ VerFormat

\* A component written the way Display writes it: digits only, no leading zero.
Canonical(part) ==
    /\ Len(part) >= 1
    /\ AllDigits(part)
    /\ (Len(part) = 1 \/ SubSeq(part, 1, 1) # "0")

\* The components of the input are numbers within the packed fields.
WithinPackedLimits(input) ==
    LET parts == Split(input, ".")
    IN /\ Len(parts) = 3
       /\ \A i \in 1..3 : U32FromStr(parts[i]) # ParseError
       /\ U32FromStr(parts[1]) <= 65535
       /\ U32FromStr(parts[2]) <= 255
       /\ U32FromStr(parts[3]) <= 255

(* C7, as the claim states it: every dotted string major.minor.subminor    *)
(* that TryFrom accepts, with major <= 65535, minor <= 255 and subminor    *)
(* <= 255, is formatted back to exactly the original string.               *)
C7_RoundTripAccepted ==
    (verPc = "formatted" /\ WithinPackedLimits(verInput)) => verOutput = verInput

(* C7, amended: the round trip gives back the original string for every    *)
(* major.minor.subminor within the limits whose components are written in  *)
(* canonical decimal (digits only, no sign, no leading zero); such a       *)
(* string is always accepted.  For every accepted string within the limits *)
(* the output is the canonical spelling of the same three numbers.         *)
C7_RoundTripCanonical ==
    LET parts == Split(verInput, ".")
    IN /\ (verPc # "input" /\ WithinPackedLimits(verInput)) => verPc # "rejected"
       /\ (verPc = "formatted" /\ WithinPackedLimits(verInput)) =>
             /\ verOutput = FormatNumber(U32FromStr(parts[1])) \o "."
                               \o FormatNumber(U32FromStr(parts[2])) \o "."
                               \o FormatNumber(U32FromStr(parts[3]))
             /\ (\A i \in 1..3 : Canonical(parts[i])) => verOutput = verInput

\* The largest version of the claim went through parse and format.
C7_Witness ==
    /\ verPc = "formatted"
    /\ verInput = "65535.255.255"
    /\ verOutput = "65535.255.255"
    /\ verPacked.value = [hi |-> 65535, lo |-> 65535]

-----------------------------------------------------------------------------
(* Policy tables of the Mach-O validator (validation.rs).                  *)

\* The tables list their entries as written in the source, the version still a
\* string; AllowedDylib is the entry the program builds from one:
\* MachOAllowedDylib { name, max_compatibility_version: "..".try_into().unwrap(), required }
AllowedDylib(written) ==
    [name |-> written.name,
     max_compatibility_version |-> PackedVersionTryFrom(written.version).value,
     required |-> written.required]

Written(name, version, required) == [name |-> name, version |-> version, required |-> required]

DARWIN_ALLOWED_DYLIBS ==
    <<Written("@executable_path/../lib/libpython3.9.dylib",
              "3.9.0", FALSE),
      Written("@executable_path/../lib/libpython3.9d.dylib",
              "3.9.0", FALSE),
      Written("@executable_path/../lib/libpython3.10.dylib",
              "3.10.0", FALSE),
      Written("@executable_path/../lib/libpython3.10d.dylib",
              "3.10.0", FALSE),
      Written("@executable_path/../lib/libpython3.11.dylib",
              "3.11.0", FALSE),
      Written("@executable_path/../lib/libpython3.11d.dylib",
              "3.11.0", FALSE),
      Written("@executable_path/../lib/libpython3.12.dylib",
              "3.12.0", FALSE),
      Written("@executable_path/../lib/libpython3.12d.dylib",
              "3.12.0", FALSE),
      Written("@executable_path/../lib/libpython3.13.dylib",
              "3.13.0", FALSE),
      Written("@executable_path/../lib/libpython3.13d.dylib",
              "3.13.0", FALSE),
      Written("@executable_path/../lib/libpython3.13t.dylib",
              "3.13.0", FALSE),
      Written("@executable_path/../lib/libpython3.13td.dylib",
              "3.13.0", FALSE),
      Written("@executable_path/../lib/libpython3.14.dylib",
              "3.14.0", FALSE),
      Written("@executable_path/../lib/libpython3.14d.dylib",
              "3.14.0", FALSE),
      Written("@executable_path/../lib/libpython3.14t.dylib",
              "3.14.0", FALSE),
      Written("@executable_path/../lib/libpython3.14td.dylib",
              "3.14.0", FALSE),
      Written("/System/Library/Frameworks/AppKit.framework/Versions/C/AppKit",
              "45.0.0", TRUE),
      Written("/System/Library/Frameworks/ApplicationServices.framework/Versions/A/ApplicationServices",
              "1.0.0", TRUE),
      Written("/System/Library/Frameworks/Carbon.framework/Versions/A/Carbon",
              "2.0.0", TRUE),
      Written("/System/Library/Frameworks/Cocoa.framework/Versions/A/Cocoa",
              "1.0.0", TRUE),
      Written("/System/Library/Frameworks/CoreFoundation.framework/Versions/A/CoreFoundation",
              "150.0.0", TRUE),
      Written("/System/Library/Frameworks/CoreGraphics.framework/Versions/A/CoreGraphics",
              "64.0.0", TRUE),
      Written("/System/Library/Frameworks/CoreServices.framework/Versions/A/CoreServices",
              "1.0.0", TRUE),
      Written("/System/Library/Frameworks/CoreText.framework/Versions/A/CoreText",
              "1.0.0", TRUE),
      Written("/System/Library/Frameworks/Foundation.framework/Versions/C/Foundation",
              "300.0.0", TRUE),
      Written("/System/Library/Frameworks/IOKit.framework/Versions/A/IOKit",
              "1.0.0", TRUE),
      Written("/System/Library/Frameworks/QuartzCore.framework/Versions/A/QuartzCore",
              "1.2.0", TRUE),
      Written("/System/Library/Frameworks/SystemConfiguration.framework/Versions/A/SystemConfiguration",
              "1.0.0", TRUE),
      Written("/usr/lib/libedit.3.dylib",
              "2.0.0", TRUE),
      Written("/usr/lib/libncurses.5.4.dylib",
              "5.4.0", TRUE),
      Written("/usr/lib/libobjc.A.dylib",
              "1.0.0", TRUE),
      Written("/usr/lib/libpanel.5.4.dylib",
              "5.4.0", TRUE),
      Written("/usr/lib/libSystem.B.dylib",
              "1.0.0", TRUE),
      Written("/usr/lib/libz.1.dylib",
              "1.0.0", TRUE)>>

IOS_ALLOWED_DYLIBS ==
    <<Written("@executable_path/../lib/libpython3.9.dylib",
              "3.9.0", FALSE),
      Written("@executable_path/../lib/libpython3.9d.dylib",
              "3.9.0", FALSE),
      Written("@executable_path/../lib/libpython3.10.dylib",
              "3.10.0", FALSE),
      Written("@executable_path/../lib/libpython3.10d.dylib",
              "3.10.0", FALSE),
      Written("@executable_path/../lib/libpython3.11.dylib",
              "3.11.0", FALSE),
      Written("@executable_path/../lib/libpython3.11d.dylib",
              "3.11.0", FALSE),
      Written("/System/Library/Frameworks/CoreFoundation.framework/CoreFoundation",
              "150.0.0", FALSE),
      Written("/usr/lib/libSystem.B.dylib",
              "1.0.0", TRUE),
      Written("/usr/lib/libz.1.dylib",
              "1.0.0", TRUE)>>

\* allowed_dylibs_for_triple
allowed_dylibs_for_triple(triple) ==
    CASE triple \in {"aarch64-apple-darwin", "x86_64-apple-darwin"} -> DARWIN_ALLOWED_DYLIBS
      [] triple \in {"aarch64-apple-ios", "x86_64-apple-ios"} -> IOS_ALLOWED_DYLIBS
      [] OTHER -> <<>>

\* cputype, file type and library ordinal values of the object crate.
CPU_TYPE_X86_64 == 16777223
CPU_TYPE_ARM64 == 16777228
SELF_LIBRARY_ORDINAL == 0
MAX_LIBRARY_ORDINAL == 253

-----------------------------------------------------------------------------
(* validate_macho (validation.rs).                                         *)

\* semver::Version::parse of "X.Y.Z": three numbers without leading zeros.
\* (Pre-release and build suffixes are not modelled.)
SemverParse(text) ==
    LET parts == Split(text, ".")
        numeric(part) == Len(part) > 0 /\ AllDigits(part)
                            /\ (Len(part) > 1 => ~StartsWith(part, "0"))
    IN IF Len(parts) = 3 /\ \A i \in 1..3 : numeric(parts[i])
       THEN Some(<<DigitsValue(parts[1]), DigitsValue(parts[2]), DigitsValue(parts[3])>>)
       ELSE None

\* Display of semver::Version
SemverDisplay(v) == FormatNumber(v[1]) \o "." \o FormatNumber(v[2]) \o "." \o FormatNumber(v[3])

\* parse_version_nibbles
parse_version_nibbles(v) == <<v.hi, v.lo \div TwoTo8, v.lo % TwoTo8>>

\* The match on target_triple in validate_macho; None is its Err arm.
MachoWantedCpuType(target_triple) ==
    CASE target_triple \in {"aarch64-apple-darwin", "aarch64-apple-ios"} -> Some(CPU_TYPE_ARM64)
      [] target_triple \in {"x86_64-apple-darwin", "x86_64-apple-ios"} -> Some(CPU_TYPE_X86_64)
      [] OTHER -> None

\* allowed.iter().find(|l| l.name == lib)
FindAllowedDylib(allowed, lib) ==
    LET hits == {i \in 1..Len(allowed) : allowed[i].name = lib}
    IN IF hits = {} THEN None
       ELSE Some(AllowedDylib(allowed[CHOOSE i \in hits : \A j \in hits : i <= j]))

\* The LoadCommandVariant::Dylib arm of validate_macho; found is the entry of
\* the allow-list that bears the name of the library, if there is one.
MachoDylibFound(found, context, path, command) ==
    IF IsSome(found)
    THEN [context EXCEPT
            !.errors =
                IF PackedVersionGreater(PackedVersionFrom(command.compatibility_version),
                                        Unwrap(found).max_compatibility_version)
                THEN Append(@, path \o " loads too new version of " \o command.name
                                  \o "; got "
                                  \o PackedVersionDisplay(
                                         PackedVersionFrom(command.compatibility_version))
                                  \o ", max allowed "
                                  \o PackedVersionDisplay(
                                         Unwrap(found).max_compatibility_version))
                ELSE @,
            !.seen_dylibs = @ \cup {command.name}]
    ELSE PushError(context, path \o " loads illegal library " \o command.name)

\* The LoadCommandVariant::Dylib arm of validate_macho.
MachoDylib(context, target_triple, path, command) ==
    MachoDylibFound(FindAllowedDylib(allowed_dylibs_for_triple(target_triple), command.name),
                    context, path, command)

\* The scope of a symbol, from its n_type.
MachoSymbolScope(symbol) ==
    IF symbol.n_undf THEN "Unknown"
    ELSE IF ~symbol.n_ext THEN "Compilation"
    ELSE IF symbol.n_pext THEN "Linkage"
    ELSE "Dynamic"

\* name.strip_prefix('_'), the name itself if there is no such prefix.
StripUnderscore(name) == IF StartsWith(name, "_") THEN SubSeq(name, 2, Len(name)) ELSE name

\* A broken loop body: the N_WEAK_REF bit of an undefined symbol is not kept.
MachoSymbolWithoutWeak(st, path, filetype, symbol) ==
    LET s1 == IF symbol.n_undf
              THEN [st EXCEPT !.undefined_symbols =
                        Append(@, [name |-> symbol.name,
                                   library_ordinal |-> symbol.library_ordinal,
                                   weak |-> FALSE])]
              ELSE st
        scope == MachoSymbolScope(symbol)
        search_name == StripUnderscore(symbol.name)
        c2 == IF search_name \in DEPENDENCY_PACKAGE_SYMBOLS /\ scope = "Dynamic"
              THEN PushError(s1.context, path \o " contains dynamic symbol from dependency "
                                           \o symbol.name)
              ELSE s1.context
        c3 == IF /\ StartsWith(FileName(path), "libpython")
                 /\ EndsWith(FileName(path), ".dylib")
                 /\ scope = "Dynamic"
              THEN [c2 EXCEPT !.libpython_exported_symbols = @ \cup {search_name}]
              ELSE c2
    IN IF filetype # "MH_OBJECT" THEN [s1 EXCEPT !.context = c3] ELSE s1

\* The body of the loop over the symbols of a Symtab command, for one symbol;
\* st holds the context and the undefined symbols collected so far.
MachoSymbol(st, path, filetype, symbol) ==
    LET s1 == IF symbol.n_undf
              THEN [st EXCEPT !.undefined_symbols =
                        Append(@, [name |-> symbol.name,
                                   library_ordinal |-> symbol.library_ordinal,
                                   weak |-> symbol.weak])]
              ELSE st
        scope == MachoSymbolScope(symbol)
        search_name == StripUnderscore(symbol.name)
        c2 == IF search_name \in DEPENDENCY_PACKAGE_SYMBOLS /\ scope = "Dynamic"
              THEN PushError(s1.context, path \o " contains dynamic symbol from dependency "
                                           \o symbol.name)
              ELSE s1.context
        c3 == IF /\ StartsWith(FileName(path), "libpython")
                 /\ EndsWith(FileName(path), ".dylib")
                 /\ scope = "Dynamic"
              THEN [c2 EXCEPT !.libpython_exported_symbols = @ \cup {search_name}]
              ELSE c2
    IN IF filetype # "MH_OBJECT" THEN [s1 EXCEPT !.context = c3] ELSE s1

RECURSIVE MachoSymbols(_, _, _, _)
MachoSymbols(st, path, filetype, symbols) ==
    IF symbols = <<>> THEN st
    ELSE MachoSymbols(MachoSymbol(st, path, filetype, Head(symbols)), path, filetype,
                      Tail(symbols))

\* The body of the loop over the load commands, for one command.
MachoLoadCommand(st, target_triple, path, filetype, command) ==
    CASE command.cmd = "BuildVersion" ->
            [st EXCEPT !.sdk_version =
                            IF parse_version_nibbles(command.sdk) # <<0, 0, 0>>
                            THEN Some(parse_version_nibbles(command.sdk)) ELSE @,
                       !.target_version = Some(parse_version_nibbles(command.minos))]
      [] command.cmd = "VersionMin" ->
            [st EXCEPT !.sdk_version =
                            IF parse_version_nibbles(command.sdk) # <<0, 0, 0>>
                            THEN Some(parse_version_nibbles(command.sdk)) ELSE @,
                       !.target_version = Some(parse_version_nibbles(command.version))]
      [] command.cmd = "Dylib" ->
            [st EXCEPT !.dylib_names = Append(@, command.name),
                       !.context = MachoDylib(@, target_triple, path, command)]
      [] command.cmd = "Symtab" -> MachoSymbols(st, path, filetype, command.symbols)
      [] OTHER -> st

\* The loop over the load commands; a command that cannot be read ends
\* validate_macho with Err.
RECURSIVE MachoLoadCommands(_, _, _, _, _)
MachoLoadCommands(st, target_triple, path, filetype, commands) ==
    IF commands = <<>> THEN Some(st)
    ELSE IF Head(commands).cmd = "Corrupt" THEN None
    ELSE MachoLoadCommands(MachoLoadCommand(st, target_triple, path, filetype, Head(commands)),
                           target_triple, path, filetype, Tail(commands))

\* A broken loop: an ordinal from MAX_LIBRARY_ORDINAL on is looked up in the
\* names of the libraries as well, and so fails.
RECURSIVE MachoUndefinedSymbolsAnyOrdinal(_, _, _, _)
MachoUndefinedSymbolsAnyOrdinal(context, path, dylib_names, undefined_symbols) ==
    IF undefined_symbols = <<>> THEN Ok(context)
    ELSE LET symbol == Head(undefined_symbols)
             lib == dylib_names[symbol.library_ordinal]
             next == IF symbol.weak
                     THEN [context EXCEPT !.macho_undefined_symbols_weak =
                              RequiredSymbolsInsert(@, lib, symbol.name, path)]
                     ELSE [context EXCEPT !.macho_undefined_symbols_strong =
                              RequiredSymbolsInsert(@, lib, symbol.name, path)]
         IN IF symbol.library_ordinal = SELF_LIBRARY_ORDINAL
            THEN MachoUndefinedSymbolsAnyOrdinal(context, path, dylib_names,
                                                 Tail(undefined_symbols))
            ELSE IF symbol.library_ordinal > Len(dylib_names) THEN Err
            ELSE MachoUndefinedSymbolsAnyOrdinal(next, path, dylib_names,
                                                 Tail(undefined_symbols))

\* The loop over the undefined symbols collected from the symbol tables.
RECURSIVE MachoUndefinedSymbols(_, _, _, _)
MachoUndefinedSymbols(context, path, dylib_names, undefined_symbols) ==
    IF undefined_symbols = <<>> THEN Ok(context)
    ELSE LET symbol == Head(undefined_symbols)
             lib == dylib_names[symbol.library_ordinal]
             next == IF symbol.weak
                     THEN [context EXCEPT !.macho_undefined_symbols_weak =
                              RequiredSymbolsInsert(@, lib, symbol.name, path)]
                     ELSE [context EXCEPT !.macho_undefined_symbols_strong =
                              RequiredSymbolsInsert(@, lib, symbol.name, path)]
         IN IF symbol.library_ordinal = SELF_LIBRARY_ORDINAL
            THEN MachoUndefinedSymbols(context, path, dylib_names, Tail(undefined_symbols))
            ELSE IF symbol.library_ordinal >= MAX_LIBRARY_ORDINAL
            THEN MachoUndefinedSymbols(context, path, dylib_names, Tail(undefined_symbols))
            ELSE IF symbol.library_ordinal > Len(dylib_names) THEN Err
            ELSE MachoUndefinedSymbols(next, path, dylib_names, Tail(undefined_symbols))

\* The end of validate_macho, from the comparison of the versions on; st is
\* what the loop over the load commands left behind.
MachoAfterLoadCommands(st, target, sdk, path, filetype) ==
    LET context ==
            ExtendErrors(st.context,
                (IF IsSome(st.target_version) /\ Unwrap(st.target_version) # target
                 THEN <<path \o " targets SDK " \o SemverDisplay(Unwrap(st.target_version))
                           \o " but JSON advertises SDK " \o SemverDisplay(target)>>
                 ELSE <<>>)
                \o (IF IsSome(st.sdk_version) /\ Unwrap(st.sdk_version) # sdk
                    THEN <<path \o " was built with SDK "
                              \o SemverDisplay(Unwrap(st.sdk_version))
                              \o " but JSON advertises SDK " \o SemverDisplay(sdk)>>
                    ELSE <<>>))
    IN IF filetype # "MH_OBJECT"
       THEN MachoUndefinedSymbols(context, path, st.dylib_names, st.undefined_symbols)
       ELSE Ok(context)

\* validate_macho from the loop over the load commands on; looped is None when
\* a load command could not be read.
MachoLoaded(looped, target, sdk, path, filetype) ==
    IF ~IsSome(looped) THEN Err
    ELSE MachoAfterLoadCommands(Unwrap(looped), Unwrap(target), Unwrap(sdk), path, filetype)

\* The checks of validate_macho on the header.
MachoHeaderErrors(target_triple, path, header) ==
    (IF header.cputype # Unwrap(MachoWantedCpuType(target_triple))
     THEN <<path \o " has incorrect CPU type; got " \o FormatNumber(header.cputype)
               \o ", wanted " \o FormatNumber(Unwrap(MachoWantedCpuType(target_triple)))>>
     ELSE <<>>)
    \o (IF header.filetype # "MH_OBJECT" /\ ~header.twolevel
        THEN <<path \o " does not use two-level symbol lookup">>
        ELSE <<>>)

\* validate_macho
ValidateMacho(context, target_triple, advertised_target_version, advertised_sdk_version, path, header) ==
    IF ~IsSome(SemverParse(advertised_target_version \o ".0")) THEN Err
    ELSE IF ~IsSome(SemverParse(advertised_sdk_version \o ".0")) THEN Err
    ELSE IF header.corrupt THEN Err
    ELSE IF ~IsSome(MachoWantedCpuType(target_triple)) THEN Err
    ELSE MachoLoaded(MachoLoadCommands(
                         [context |-> ExtendErrors(context,
                                                   MachoHeaderErrors(target_triple, path, header)),
                          dylib_names |-> <<>>,
                          undefined_symbols |-> <<>>,
                          target_version |-> None,
                          sdk_version |-> None],
                         target_triple, path, header.filetype, header.commands),
                     SemverParse(advertised_target_version \o ".0"),
                     SemverParse(advertised_sdk_version \o ".0"),
                     path, header.filetype)

-----------------------------------------------------------------------------
(* SpecMacho: validate_macho is called once on a Mach-O file.              *)

\* The most load commands a Mach-O file of this specification has.
MaxCommands == 2

Dylib(name, major, minor, subminor) ==
    [cmd |-> "Dylib", name |-> name,
     compatibility_version |-> PackVersion(major, minor, subminor)]

MachoUndefined(name, library_ordinal, weak) ==
    [name |-> name, n_undf |-> TRUE, n_ext |-> TRUE, n_pext |-> FALSE,
     library_ordinal |-> library_ordinal, weak |-> weak]

MachoDefined(name, n_ext, n_pext) ==
    [name |-> name, n_undf |-> FALSE, n_ext |-> n_ext, n_pext |-> n_pext,
     library_ordinal |-> 0, weak |-> FALSE]

\* A symbol table whose undefined symbols are bound to the first library, one
\* of them weakly.
FirstLibrarySymtab ==
    [cmd |-> "Symtab",
     symbols |-> <<MachoUndefined("_malloc", 1, FALSE), MachoUndefined("_getentropy", 1, TRUE),
                   MachoDefined("_SSL_read", TRUE, FALSE),
                   MachoDefined("_Py_Initialize", TRUE, FALSE)>>]

\* A symbol table whose undefined symbols are bound to the file itself (0), to
\* a dynamic lookup (254) and to the ordinal 253.
LookupSymtab ==
    [cmd |-> "Symtab",
     symbols |-> <<MachoUndefined("_PyInit_x", 0, FALSE), MachoUndefined("_dyn", 254, FALSE),
                   MachoUndefined("_environ", 253, TRUE),
                   MachoDefined("_ffi_call", TRUE, TRUE)>>]

\* A symbol table whose undefined symbols are bound to the second library.
SecondLibrarySymtab ==
    [cmd |-> "Symtab",
     symbols |-> <<MachoUndefined("_tputs", 2, FALSE), MachoUndefined("_wcsdup", 2, TRUE)>>]

\* The load commands the Mach-O files of this specification are made of.
MachoCommandPalette ==
    {Dylib("/usr/lib/libncurses.5.4.dylib", 5, 4, 0),
     Dylib("/usr/lib/libncurses.5.4.dylib", 5, 4, 1),
     Dylib("/usr/lib/libncurses.5.4.dylib", 5, 3, 255),
     Dylib("@executable_path/../lib/libpython3.9.dylib", 4, 0, 0),
     Dylib("@executable_path/../lib/libpython3.9.dylib", 3, 8, 255),
     Dylib("/usr/lib/libSystem.B.dylib", 65535, 255, 255),
     Dylib("/usr/lib/libfoo.dylib", 1, 0, 0),
     [cmd |-> "BuildVersion", sdk |-> PackVersion(13, 1, 0), minos |-> PackVersion(11, 0, 0)],
     [cmd |-> "VersionMin", sdk |-> PackVersion(0, 0, 0), version |-> PackVersion(10, 9, 0)],
     FirstLibrarySymtab,
     LookupSymtab,
     SecondLibrarySymtab,
     [cmd |-> "Segment"],
     [cmd |-> "Corrupt"]}

\* The sequences of at most n load commands.
RECURSIVE CommandLists(_)
CommandLists(n) ==
    IF n = 0 THEN {<<>>}
    ELSE CommandLists(n - 1)
         \cup {Append(l, x) : l \in {m \in CommandLists(n - 1) : Len(m) = n - 1},
                              x \in MachoCommandPalette}

\* The headers of the Mach-O files: an arm64 executable, an x86-64 object file,
\* an arm64 library without two-level lookup, and a file whose header or load
\* commands are unreadable.
MachoHeaders ==
    {[cputype |-> CPU_TYPE_ARM64, filetype |-> "MH_EXECUTE", twolevel |-> TRUE,
      corrupt |-> FALSE],
     [cputype |-> CPU_TYPE_X86_64, filetype |-> "MH_OBJECT", twolevel |-> FALSE,
      corrupt |-> FALSE],
     [cputype |-> CPU_TYPE_ARM64, filetype |-> "MH_DYLIB", twolevel |-> FALSE,
      corrupt |-> FALSE],
     [cputype |-> CPU_TYPE_ARM64, filetype |-> "MH_EXECUTE", twolevel |-> TRUE,
      corrupt |-> TRUE]}

\* The load commands of files that load two libraries, one of them not on
\* any allow-list, before, around and after their symbol table.
MachoLinkedCommands ==
    {<<Dylib("/usr/lib/libfoo.dylib", 1, 0, 0), Dylib("/usr/lib/libSystem.B.dylib", 1, 0, 0),
       SecondLibrarySymtab>>,
     <<Dylib("/usr/lib/libSystem.B.dylib", 1, 0, 0), SecondLibrarySymtab,
       Dylib("/usr/lib/libfoo.dylib", 1, 0, 0)>>,
     <<FirstLibrarySymtab, [cmd |-> "Segment"], Dylib("/usr/lib/libncurses.5.4.dylib", 5, 4, 0),
       LookupSymtab>>}

MachoFiles ==
    {[cputype |-> h.cputype, filetype |-> h.filetype, twolevel |-> h.twolevel,
      corrupt |-> h.corrupt, commands |-> l] :
        h \in MachoHeaders, l \in CommandLists(MaxCommands) \cup MachoLinkedCommands}

MachoTriples == {"aarch64-apple-darwin", "x86_64-apple-ios", "x86_64-unknown-linux-gnu"}

\* (apple_sdk_deployment_target, apple_sdk_version) of PYTHON.json.
MachoAdvertised == {<<"11.0", "13.1">>, <<"10.9", "13">>}

MachoPaths == {"python/install/lib/libpython3.9.dylib", "python/install/bin/python3.9"}

MachoInputs ==
    [target_triple : MachoTriples, advertised : MachoAdvertised, path : MachoPaths,
     header : MachoFiles]

MachoInit ==
    /\ machoArgs \in MachoInputs
    /\ machoResult = None
    /\ machoPc = "call"

MachoIdle == machoArgs = Idle /\ machoResult = Idle /\ machoPc = Idle

\* validate_macho(&mut context, target_triple, advertised_target_version,
\* advertised_sdk_version, path, header, bytes) on a fresh context, as
\* validate_possible_object_file calls it.
MachoValidate ==
    /\ machoPc = "call"
    /\ machoResult' = Some(ValidateMacho(ValidationContextDefault, machoArgs.target_triple,
                                         machoArgs.advertised[1], machoArgs.advertised[2],
                                         machoArgs.path, machoArgs.header))
    /\ machoPc' = "done"
    /\ UNCHANGED machoArgs
    /\ UNCHANGED notMachoVars

MachoNext == MachoValidate

\* The call returned Ok: its errors are the ones the caller receives.
MachoReturnedOk == machoPc = "done" /\ Unwrap(machoResult).status = "ok"

MachoErrors == Unwrap(machoResult).context.errors

\* Where the Dylib commands of the file whose name is on the allow-list of the
\* target triple are.
MachoMatchingDylibs ==
    {i \in DOMAIN machoArgs.header.commands :
        /\ machoArgs.header.commands[i].cmd = "Dylib"
        /\ \E j \in DOMAIN allowed_dylibs_for_triple(machoArgs.target_triple) :
              allowed_dylibs_for_triple(machoArgs.target_triple)[j].name
                  = machoArgs.header.commands[i].name}

\* The ceiling of the allow-list entry a Dylib command matches.
MachoCeiling(i) ==
    LET allowed == allowed_dylibs_for_triple(machoArgs.target_triple)
    IN Unwrap(FindAllowedDylib(allowed, machoArgs.header.commands[i].name)).max_compatibility_version

\* (major, minor, subminor) of a packed version.
Unpacked(v) == <<v.hi, v.lo \div 256, v.lo % 256>>

\* Lexicographic order of triples.
LexGreater(a, b) ==
    \/ a[1] > b[1]
    \/ a[1] = b[1] /\ a[2] > b[2]
    \/ a[1] = b[1] /\ a[2] = b[2] /\ a[3] > b[3]

MachoTooNewMessage(i) ==
    machoArgs.path \o " loads too new version of " \o machoArgs.header.commands[i].name
        \o "; got " \o PackedVersionDisplay(machoArgs.header.commands[i].compatibility_version)
        \o ", max allowed " \o PackedVersionDisplay(MachoCeiling(i))

\* The packed versions of the file and of the allow-list entries they meet.
MachoVersions ==
    {machoArgs.header.commands[i].compatibility_version : i \in MachoMatchingDylibs}
        \cup {MachoCeiling(i) : i \in MachoMatchingDylibs}

\* C8: for every Dylib command whose name matches an allow-list entry of the
\* target triple, validate_macho reports exactly one 'loads too new version'
\* error if the command's compatibility version is greater than the entry's
\* ceiling and none otherwise; the order of packed versions is total and is the
\* lexicographic order of (major, minor, subminor): (3,9,1) > (3,9,0) and
\* (4,0,0) > (3,255,255).
C8_TooNewVersion ==
    MachoReturnedOk =>
        /\ \A i \in MachoMatchingDylibs :
              Count(MachoErrors, MachoTooNewMessage(i))
                  = IF LexGreater(Unpacked(machoArgs.header.commands[i].compatibility_version),
                                  Unpacked(MachoCeiling(i)))
                    THEN Cardinality({k \in MachoMatchingDylibs :
                                         machoArgs.header.commands[k]
                                             = machoArgs.header.commands[i]})
                    ELSE 0
        /\ \A e \in 1..Len(MachoErrors) :
              Contains(MachoErrors[e], " loads too new version of ") =>
                  \E i \in MachoMatchingDylibs : MachoErrors[e] = MachoTooNewMessage(i)
        /\ \A a, b \in MachoVersions :
              /\ PackedVersionGreater(a, b) <=> LexGreater(Unpacked(a), Unpacked(b))
              /\ PackedVersionGreater(a, b) \/ PackedVersionGreater(b, a) \/ a = b
              /\ ~(PackedVersionGreater(a, b) /\ PackedVersionGreater(b, a))
        /\ PackedVersionGreater(PackVersion(3, 9, 1), PackVersion(3, 9, 0))
        /\ PackedVersionGreater(PackVersion(4, 0, 0), PackVersion(3, 255, 255))

\* A file that loads libncurses at 5.4.1 and at 5.4.0 against the ceiling 5.4.0
\* was validated: the first load was reported once, the second not.
C8_Witness ==
    /\ MachoReturnedOk
    /\ \E i, k \in MachoMatchingDylibs :
          /\ machoArgs.header.commands[i] = Dylib("/usr/lib/libncurses.5.4.dylib", 5, 4, 1)
          /\ machoArgs.header.commands[k] = Dylib("/usr/lib/libncurses.5.4.dylib", 5, 4, 0)
          /\ Count(MachoErrors, MachoTooNewMessage(i)) = 1
          /\ Count(MachoErrors, MachoTooNewMessage(k)) = 0

-----------------------------------------------------------------------------
(* Paths and the order of BTreeSet and BTreeMap iteration.                 *)

\* Path::components, for paths without a leading "./".
Components(path) == SelectSeq(Split(path, "/"), LAMBDA c : c # "" /\ c # ".")

IsAbsolute(path) == StartsWith(path, "/")

\* The components, with a separator between two of them.
JoinComponents(cs) ==
    LET joined[n \in Nat] ==
            IF n = 0 THEN ""
            ELSE IF n = 1 THEN cs[1]
            ELSE joined[n - 1] \o "/" \o cs[n]
    IN joined[Len(cs)]

\* Path::join
PathJoin(base, rel) ==
    IF IsAbsolute(rel) THEN rel
    ELSE IF base = "" THEN rel
    ELSE base \o "/" \o rel

\* The loop of NormalizePath::normalize over the components cs, from ret on:
\* ".." pops, anything else is pushed.
NormalizeLoop(ret, cs) ==
    LET loop[stack \in Seq(STRING), n \in Nat] ==
            IF n > Len(cs) THEN stack
            ELSE IF cs[n] = ".."
                 THEN loop[IF stack = <<>> THEN stack ELSE SubSeq(stack, 1, Len(stack) - 1),
                           n + 1]
            ELSE loop[Append(stack, cs[n]), n + 1]
    IN loop[ret, 1]

\* NormalizePath::normalize
Normalize(path) ==
    (IF IsAbsolute(path) THEN "/" ELSE "") \o JoinComponents(NormalizeLoop(<<>>, Components(path)))

\* Path::starts_with: a prefix by whole components.
PathStartsWith(path, prefix) ==
    /\ IsAbsolute(path) = IsAbsolute(prefix)
    /\ Len(Components(prefix)) <= Len(Components(path))
    /\ SubSeq(Components(path), 1, Len(Components(prefix))) = Components(prefix)

\* Path::with_file_name
WithFileName(path, name) == PathJoin(Parent(path), name)

\* The characters of the file names, library names and symbols, in byte order.
ByteOrder == " !#$%+,-./0123456789:;<=>@ABCDEFGHIJKLMNOPQRSTUVWXYZ_abcdefghijklmnopqrstuvwxyz~"

CharRank(c) == CHOOSE i \in 1..Len(ByteOrder) : SubSeq(ByteOrder, i, i) = c

\* The length of the longest common prefix of a and b (strings or sequences).
CommonPrefix(a, b) ==
    LET common[n \in Nat] ==
            IF n < Len(a) /\ n < Len(b) /\ SubSeq(a, n + 1, n + 1) = SubSeq(b, n + 1, n + 1)
            THEN common[n + 1]
            ELSE n
    IN common[0]

\* Ord for str: a < b, byte by byte.
StrLess(a, b) ==
    LET n == CommonPrefix(a, b)
    IN IF n = Len(b) THEN FALSE
       ELSE IF n = Len(a) THEN TRUE
       ELSE CharRank(SubSeq(a, n + 1, n + 1)) < CharRank(SubSeq(b, n + 1, n + 1))

\* Ord for Path: a < b, component by component.
ComponentsLess(a, b) ==
    LET n == CommonPrefix(a, b)
    IN IF n = Len(b) THEN FALSE
       ELSE IF n = Len(a) THEN TRUE
       ELSE StrLess(a[n + 1], b[n + 1])

PathLess(a, b) ==
    IF IsAbsolute(a) # IsAbsolute(b) THEN IsAbsolute(b)
    ELSE ComponentsLess(Components(a), Components(b))

\* The order in which a BTreeSet<String> (or the keys of a BTreeMap) is iterated.
SortStrings(S) ==
    LET sorted[T \in SUBSET S] ==
            IF T = {} THEN <<>>
            ELSE LET first == CHOOSE x \in T : \A y \in T : ~StrLess(y, x)
                 IN <<first>> \o sorted[T \ {first}]
    IN sorted[S]

\* The order in which a BTreeSet<PathBuf> is iterated.
SortPaths(S) ==
    LET sorted[T \in SUBSET S] ==
            IF T = {} THEN <<>>
            ELSE LET first == CHOOSE x \in T : \A y \in T : ~PathLess(y, x)
                 IN <<first>> \o sorted[T \ {first}]
    IN sorted[S]

\* The concatenation of f[1], f[2], ..: what a loop pushes, iteration by iteration.
Flatten(f) ==
    LET flat[n \in Nat] == IF n = 0 THEN <<>> ELSE flat[n - 1] \o f[n]
    IN flat[Len(f)]

\* The elements of a sequence.
Range(f) == {f[i] : i \in DOMAIN f}

-----------------------------------------------------------------------------
(* Policy tables of the distribution validator (validation.rs).            *)

RECOGNIZED_TRIPLES ==
    <<"aarch64-apple-darwin", "aarch64-apple-ios", "aarch64-unknown-linux-gnu",
      "armv7-unknown-linux-gnueabi", "armv7-unknown-linux-gnueabihf", "arm64-apple-tvos",
      "i686-pc-windows-msvc", "i686-unknown-linux-gnu", "mips-unknown-linux-gnu",
      "mipsel-unknown-linux-gnu", "mips64el-unknown-linux-gnuabi64",
      "ppc64le-unknown-linux-gnu", "s390x-unknown-linux-gnu", "thumbv7k-apple-watchos",
      "x86_64-apple-darwin", "x86_64-apple-ios", "x86_64-apple-tvos", "x86_64-apple-watchos",
      "x86_64-pc-windows-msvc", "x86_64-unknown-linux-gnu", "x86_64_v2-unknown-linux-gnu",
      "x86_64_v3-unknown-linux-gnu", "x86_64_v4-unknown-linux-gnu",
      "x86_64-unknown-linux-musl", "x86_64_v2-unknown-linux-musl",
      "x86_64_v3-unknown-linux-musl", "x86_64_v4-unknown-linux-musl">>

PE_ALLOWED_LIBRARIES ==
    {"ADVAPI32.dll", "api-ms-win-core-path-l1-1-0.dll", "api-ms-win-crt-conio-l1-1-0.dll",
     "api-ms-win-crt-convert-l1-1-0.dll", "api-ms-win-crt-heap-l1-1-0.dll",
     "api-ms-win-crt-environment-l1-1-0.dll", "api-ms-win-crt-filesystem-l1-1-0.dll",
     "api-ms-win-crt-locale-l1-1-0.dll", "api-ms-win-crt-math-l1-1-0.dll",
     "api-ms-win-crt-process-l1-1-0.dll", "api-ms-win-crt-runtime-l1-1-0.dll",
     "api-ms-win-crt-stdio-l1-1-0.dll", "api-ms-win-crt-string-l1-1-0.dll",
     "api-ms-win-crt-time-l1-1-0.dll", "api-ms-win-crt-utility-l1-1-0.dll", "bcrypt.dll",
     "Cabinet.dll", "COMCTL32.dll", "COMDLG32.dll", "CRYPT32.dll", "GDI32.dll", "IMM32.dll",
     "IPHLPAPI.DLL", "KERNEL32.dll", "msi.dll", "NETAPI32.dll", "ole32.dll", "OLEAUT32.dll",
     "PROPSYS.dll", "RPCRT4.dll", "SHELL32.dll", "SHLWAPI.dll", "USER32.dll", "USERENV.dll",
     "VERSION.dll", "VCRUNTIME140.dll", "VCRUNTIME140_1.dll", "WINMM.dll", "WS2_32.dll",
     "libcrypto-1_1.dll", "libcrypto-1_1-x64.dll", "libcrypto-3.dll", "libcrypto-3-x64.dll",
     "libffi-8.dll", "libssl-1_1.dll", "libssl-1_1-x64.dll", "libssl-3.dll",
     "libssl-3-x64.dll", "python3.dll", "python39.dll", "python310.dll", "python311.dll",
     "python312.dll", "python313.dll", "python313t.dll", "python314.dll", "python314t.dll",
     "sqlite3.dll", "tcl86t.dll", "tk86t.dll"}

PYTHON_EXPORTED_SYMBOLS ==
    <<"Py_Initialize", "PyList_New", "Py_CompileString">>

GLOBALLY_BANNED_EXTENSIONS ==
    {"nis"}

GLOBAL_EXTENSIONS ==
    {"_abc", "_ast", "_asyncio", "_bisect", "_blake2", "_bz2", "_codecs", "_codecs_cn",
     "_codecs_hk", "_codecs_iso2022", "_codecs_jp", "_codecs_kr", "_codecs_tw",
     "_collections", "_contextvars", "_csv", "_ctypes", "_datetime", "_decimal",
     "_elementtree", "_functools", "_hashlib", "_heapq", "_imp", "_io", "_json", "_locale",
     "_lsprof", "_lzma", "_md5", "_multibytecodec", "_multiprocessing", "_opcode",
     "_operator", "_pickle", "_queue", "_random", "_sha1", "_sha3", "_signal", "_socket",
     "_sqlite3", "_sre", "_ssl", "_stat", "_statistics", "_string", "_struct", "_symtable",
     "_thread", "_tkinter", "_tracemalloc", "_warnings", "_weakref", "_uuid", "array",
     "atexit", "binascii", "builtins", "cmath", "errno", "faulthandler", "gc", "itertools",
     "marshal", "math", "mmap", "pyexpat", "select", "sys", "time", "unicodedata",
     "xxsubtype", "zlib"}

GLOBAL_EXTENSIONS_PYTHON_3_9 ==
    {"audioop", "_peg_parser", "_sha256", "_sha512", "_xxsubinterpreters", "_zoneinfo",
     "parser"}

GLOBAL_EXTENSIONS_PYTHON_3_10 ==
    {"audioop", "_sha256", "_sha512", "_xxsubinterpreters", "_zoneinfo"}

GLOBAL_EXTENSIONS_PYTHON_3_11 ==
    {"audioop", "_sha256", "_sha512", "_tokenize", "_typing", "_xxsubinterpreters",
     "_zoneinfo"}

GLOBAL_EXTENSIONS_PYTHON_3_12 ==
    {"audioop", "_sha2", "_tokenize", "_typing", "_xxinterpchannels", "_xxsubinterpreters",
     "_zoneinfo"}

GLOBAL_EXTENSIONS_PYTHON_3_13 ==
    {"_interpchannels", "_interpqueues", "_interpreters", "_sha2", "_sysconfig", "_tokenize",
     "_typing", "_zoneinfo"}

GLOBAL_EXTENSIONS_PYTHON_3_14 ==
    {"_interpchannels", "_interpqueues", "_interpreters", "_sha2", "_sysconfig", "_tokenize",
     "_typing", "_zoneinfo"}

GLOBAL_EXTENSIONS_MACOS ==
    {"_scproxy"}

GLOBAL_EXTENSIONS_POSIX ==
    {"_ctypes_test", "_curses", "_curses_panel", "_dbm", "_posixshmem", "_posixsubprocess",
     "_testinternalcapi", "fcntl", "grp", "posix", "pwd", "readline", "resource", "syslog",
     "termios"}

GLOBAL_EXTENSIONS_POSIX_PRE_3_13 ==
    {"_crypt"}

GLOBAL_EXTENSIONS_LINUX_PRE_3_13 ==
    {"spwd"}

GLOBAL_EXTENSIONS_WINDOWS ==
    {"_overlapped", "_winapi", "msvcrt", "nt", "winreg", "winsound"}

GLOBAL_EXTENSIONS_WINDOWS_PRE_3_13 ==
    {"_msi"}

GLOBAL_EXTENSIONS_WINDOWS_NO_STATIC ==
    <<"_testinternalcapi", "_tkinter">>

SHARED_LIBRARY_EXTENSIONS ==
    {"_crypt"}

\* PLATFORM_TAG_BY_TRIPLE.get(triple)
PLATFORM_TAG_BY_TRIPLE(triple) ==
    CASE triple = "aarch64-apple-darwin" -> Some("macosx-11.0-arm64")
      [] triple = "aarch64-apple-ios" -> Some("iOS-aarch64")
      [] triple = "aarch64-unknown-linux-gnu" -> Some("linux-aarch64")
      [] triple = "armv7-unknown-linux-gnueabi" -> Some("linux-arm")
      [] triple = "armv7-unknown-linux-gnueabihf" -> Some("linux-arm")
      [] triple = "i686-pc-windows-msvc" -> Some("win32")
      [] triple = "i686-unknown-linux-gnu" -> Some("linux-i686")
      [] triple = "mips-unknown-linux-gnu" -> Some("linux-mips")
      [] triple = "mipsel-unknown-linux-gnu" -> Some("linux-mipsel")
      [] triple = "mips64el-unknown-linux-gnuabi64" -> Some("todo")
      [] triple = "ppc64le-unknown-linux-gnu" -> Some("linux-powerpc64le")
      [] triple = "s390x-unknown-linux-gnu" -> Some("linux-s390x")
      [] triple = "x86_64-apple-darwin" -> Some("macosx-10.15-x86_64")
      [] triple = "x86_64-apple-ios" -> Some("iOS-x86_64")
      [] triple = "x86_64-pc-windows-msvc" -> Some("win-amd64")
      [] triple = "x86_64-unknown-linux-gnu" -> Some("linux-x86_64")
      [] triple = "x86_64_v2-unknown-linux-gnu" -> Some("linux-x86_64")
      [] triple = "x86_64_v3-unknown-linux-gnu" -> Some("linux-x86_64")
      [] triple = "x86_64_v4-unknown-linux-gnu" -> Some("linux-x86_64")
      [] triple = "x86_64-unknown-linux-musl" -> Some("linux-x86_64")
      [] triple = "x86_64_v2-unknown-linux-musl" -> Some("linux-x86_64")
      [] triple = "x86_64_v3-unknown-linux-musl" -> Some("linux-x86_64")
      [] triple = "x86_64_v4-unknown-linux-musl" -> Some("linux-x86_64")
      [] OTHER -> None

WANTED_WINDOWS_STATIC_PATHS ==
    {"python/build/lib/libffi.lib", "python/build/lib/libcrypto_static.lib",
     "python/build/lib/liblzma.lib", "python/build/lib/libssl_static.lib",
     "python/build/lib/sqlite3.lib"}

-----------------------------------------------------------------------------
(* validate_pe and validate_possible_object_file (validation.rs).          *)

\* The loop over the import descriptors of validate_pe.
RECURSIVE PeImports(_, _, _)
PeImports(context, path, imports) ==
    IF imports = <<>> THEN context
    ELSE PeImports(IF Head(imports) \notin PE_ALLOWED_LIBRARIES
                   THEN PushError(context, path \o " loads illegal library " \o Head(imports))
                   ELSE context,
                   path, Tail(imports))

\* validate_pe
ValidatePe(context, path, pe) ==
    LET c1 == IF IsSome(pe.import_table)
              THEN PeImports(context, path, Unwrap(pe.import_table))
              ELSE context
        filename == FileName(path)
    IN IF Contains(path, "wininst-") THEN Ok(context)
       ELSE IF pe.corrupt THEN Err
       ELSE IF StartsWith(filename, "python") /\ EndsWith(filename, ".dll")
            THEN Ok([c1 EXCEPT !.libpython_exported_symbols = @ \cup Range(pe.exports)])
       ELSE Ok(c1)

\* FileKind::parse(data): what the leading bytes of the data say it is.
FileKindParse(data) ==
    CASE data.kind = "elf" -> Some("Elf64")
      [] data.kind = "macho" -> Some("MachO64")
      [] data.kind = "fat" -> Some("MachOFat32")
      [] data.kind = "pe" -> Some("Pe64")
      [] data.kind = "ar" -> Some("Archive")
      [] OTHER -> None

\* validate_possible_object_file
ValidatePossibleObjectFile(json, python_major_minor, triple, path, data) ==
    LET context == ValidationContextDefault
        kind == FileKindParse(data)
    IN IF ~IsSome(kind) THEN Ok(context)
       ELSE CASE Unwrap(kind) = "Elf64" ->
                    IF ~data.parses THEN Err
                    ELSE ValidateElf(context, json, triple, python_major_minor, path, data.elf)
              [] Unwrap(kind) = "MachO64" ->
                    IF ~data.parses THEN Err
                    ELSE IF ~IsSome(json.apple_sdk_deployment_target) THEN Panic
                    ELSE IF ~IsSome(json.apple_sdk_version) THEN Panic
                    ELSE ValidateMacho(context, triple, Unwrap(json.apple_sdk_deployment_target),
                                       Unwrap(json.apple_sdk_version), path, data.header)
              [] Unwrap(kind) = "MachOFat32" ->
                    IF path # "python/build/lib/libclang_rt.osx.a"
                    THEN Ok(PushError(context, "unexpected fat mach-o binary: " \o path))
                    ELSE Ok(context)
              [] Unwrap(kind) = "Pe64" ->
                    IF ~data.parses THEN Err ELSE ValidatePe(context, path, data.pe)
              [] OTHER -> Ok(context)

-----------------------------------------------------------------------------
(* validate_extension_modules and validate_json (validation.rs).           *)

PythonVersions == {"3.9", "3.10", "3.11", "3.12", "3.13", "3.14"}

Pre313 == {"3.9", "3.10", "3.11", "3.12"}

\* The set `wanted` of validate_extension_modules, for a handled Python version.
WantedExtensions(python_major_minor, target_triple, static_crt) ==
    LET is_macos == Contains(target_triple, "-apple-darwin")
        is_linux == Contains(target_triple, "-unknown-linux-")
        is_windows == Contains(target_triple, "-pc-windows-")
        is_linux_musl == Contains(target_triple, "-unknown-linux-musl")
        by_version ==
            CASE python_major_minor = "3.9" -> GLOBAL_EXTENSIONS_PYTHON_3_9
              [] python_major_minor = "3.10" -> GLOBAL_EXTENSIONS_PYTHON_3_10
              [] python_major_minor = "3.11" -> GLOBAL_EXTENSIONS_PYTHON_3_11
              [] python_major_minor = "3.12" -> GLOBAL_EXTENSIONS_PYTHON_3_12
              [] python_major_minor = "3.13" -> GLOBAL_EXTENSIONS_PYTHON_3_13
              [] python_major_minor = "3.14" -> GLOBAL_EXTENSIONS_PYTHON_3_14
        macos ==
            IF is_macos
            THEN GLOBAL_EXTENSIONS_POSIX
                    \cup (IF python_major_minor \in Pre313
                          THEN GLOBAL_EXTENSIONS_POSIX_PRE_3_13 ELSE {})
                    \cup GLOBAL_EXTENSIONS_MACOS
            ELSE {}
        windows ==
            IF is_windows
            THEN GLOBAL_EXTENSIONS_WINDOWS
                    \cup (IF python_major_minor \in Pre313
                          THEN GLOBAL_EXTENSIONS_WINDOWS_PRE_3_13 ELSE {})
            ELSE {}
        no_static ==
            IF is_windows /\ static_crt THEN Range(GLOBAL_EXTENSIONS_WINDOWS_NO_STATIC) ELSE {}
        linux ==
            IF is_linux
            THEN GLOBAL_EXTENSIONS_POSIX
                    \cup (IF python_major_minor \in Pre313
                          THEN GLOBAL_EXTENSIONS_POSIX_PRE_3_13
                                  \cup GLOBAL_EXTENSIONS_LINUX_PRE_3_13 ELSE {})
                    \cup (IF ~is_linux_musl /\ python_major_minor \in Pre313
                          THEN {"ossaudiodev"} ELSE {})
            ELSE {}
        tests ==
            IF is_linux \/ is_macos
            THEN {"_testbuffer", "_testimportmultiple", "_testmultiphase", "_xxtestfuzz"}
                    \cup (IF python_major_minor \in {"3.13", "3.14"}
                          THEN {"_suggestions", "_testexternalinspection"} ELSE {})
                    \cup (IF python_major_minor \in {"3.12", "3.13", "3.14"}
                          THEN {"_testsinglephase"} ELSE {})
            ELSE {}
        wmi == IF python_major_minor \in {"3.12", "3.13"} /\ is_windows THEN {"_wmi"} ELSE {}
    IN ((((GLOBAL_EXTENSIONS \cup by_version \cup macos \cup windows) \ no_static)
            \cup linux) \cup tests) \cup wmi

\* A broken validate_extension_modules: it does not look for missing modules.
ValidateExtensionModulesExtrasOnly(python_major_minor, target_triple, static_crt, have_extensions) ==
    LET wanted == WantedExtensions(python_major_minor, target_triple, static_crt)
        extra == SortStrings(have_extensions \ wanted)
    IN IF Contains(target_triple, "-apple-ios") THEN [status |-> "ok", errors |-> <<>>]
       ELSE IF python_major_minor \notin PythonVersions THEN Panic
       ELSE [status |-> "ok",
             errors |-> [i \in 1..Len(extra) |-> "extra/unknown extension module: " \o extra[i]]]

\* validate_extension_modules: Ok(errors), or a panic on an unhandled version.
ValidateExtensionModules(python_major_minor, target_triple, static_crt, have_extensions) ==
    LET wanted == WantedExtensions(python_major_minor, target_triple, static_crt)
        extra == SortStrings(have_extensions \ wanted)
        missing == SortStrings(wanted \ have_extensions)
    IN IF Contains(target_triple, "-apple-ios") THEN [status |-> "ok", errors |-> <<>>]
       ELSE IF python_major_minor \notin PythonVersions THEN Panic
       ELSE [status |-> "ok",
             errors |-> [i \in 1..Len(extra) |-> "extra/unknown extension module: " \o extra[i]]
                        \o [i \in 1..Len(missing) |->
                                "missing extension module: " \o missing[i]]]

\* validate_json: Ok(errors), Err, or a panic.
ValidateJson(json, triple, is_debug) ==
    LET e1 == IF json.version # "8"
              THEN <<"expected version 8 in PYTHON.json; got " \o json.version>> ELSE <<>>
        e2 == IF Contains(triple, "-apple-")
              THEN (IF ~IsSome(json.apple_sdk_canonical_name)
                    THEN <<"JSON missing apple_sdk_canonical_name on Apple triple">> ELSE <<>>)
                   \o (IF ~IsSome(json.apple_sdk_deployment_target)
                       THEN <<"JSON missing apple_sdk_deployment_target on Apple triple">>
                       ELSE <<>>)
                   \o (IF ~IsSome(json.apple_sdk_platform)
                       THEN <<"JSON missing apple_sdk_platform on Apple triple">> ELSE <<>>)
                   \o (IF ~IsSome(json.apple_sdk_version)
                       THEN <<"JSON missing apple_sdk_version on Apple triple">> ELSE <<>>)
              ELSE <<>>
        wanted_platform_tag == PLATFORM_TAG_BY_TRIPLE(triple)
        e3 == IF json.python_platform_tag # Unwrap(wanted_platform_tag)
              THEN <<"wanted platform tag " \o Unwrap(wanted_platform_tag) \o "; got "
                        \o json.python_platform_tag>>
              ELSE <<>>
        e4 == IF is_debug /\ ~Contains(json.python_config_vars["abiflags"], "d")
              THEN <<"abiflags does not contain 'd'">> ELSE <<>>
        have_extensions == DOMAIN json.build_info.extensions
        banned == SortStrings(have_extensions \cap GLOBALLY_BANNED_EXTENSIONS)
        e5 == [i \in 1..Len(banned) |-> "banned extension detected: " \o banned[i]]
        modules == ValidateExtensionModules(json.python_major_minor_version, triple,
                                            "static" \in Range(json.crt_features),
                                            have_extensions)
    IN IF ~IsSome(wanted_platform_tag) THEN Err
       ELSE IF is_debug /\ "abiflags" \notin DOMAIN json.python_config_vars THEN Panic
       ELSE IF modules.status # "ok" THEN modules
       ELSE [status |-> "ok", errors |-> e1 \o e2 \o e3 \o e4 \o e5 \o modules.errors]

\* PythonJsonMain::all_object_paths
AllObjectPaths(json) ==
    Range(json.build_info.core.objs)
        \cup UNION {UNION {Range(json.build_info.extensions[e][v].objs)
                           : v \in DOMAIN json.build_info.extensions[e]}
                    : e \in DOMAIN json.build_info.extensions}

\* parse_python_json: None when serde rejects the data.
ParsePythonJson(data) == IF data.kind = "json" THEN Some(data.json) ELSE None

-----------------------------------------------------------------------------
(* SpecExtensions: validate_extension_modules is called once, as           *)
(* validate_json calls it: with python_major_minor_version of PYTHON.json, *)
(* the triple of the distribution, whether crt_features has "static", and   *)
(* the names of the extension modules of PYTHON.json.                      *)

\* The Python versions PYTHON.json may carry: the six the function handles
\* and one it does not.
ExtVersions == PythonVersions \cup {"3.8"}

\* Triples that have a platform tag: three for Linux, one of them a musl one,
\* two for macOS, two for Windows, one for iOS and one for tvOS.
ExtTriples ==
    {"x86_64-unknown-linux-gnu", "aarch64-unknown-linux-gnu", "x86_64-unknown-linux-musl",
     "aarch64-apple-darwin", "x86_64-apple-darwin", "x86_64-pc-windows-msvc",
     "i686-pc-windows-msvc", "aarch64-apple-ios", "arm64-apple-tvos"}

\* The module names of a PYTHON.json: those of a sound distribution of some
\* triple and version, with at most one of a few names added and at most one
\* taken away.
ExtAdded == {{}, {"nis"}, {"ossaudiodev"}, {"_wmi", "foo"}}

ExtRemoved == {{}, {"_crypt"}, {"_sqlite3", "zlib"}}

\* The inputs for one triple.
ExtInputsOf(t) ==
    {[python_major_minor |-> v, target_triple |-> t, static_crt |-> s,
      have_extensions |-> (WantedExtensions(IF v \in PythonVersions THEN v ELSE "3.9", b, s)
                              \cup a) \ r] :
        v \in ExtVersions, s \in BOOLEAN, b \in {t, "x86_64-unknown-linux-gnu"},
        a \in ExtAdded, r \in ExtRemoved}

ExtInputs == UNION {ExtInputsOf(t) : t \in ExtTriples}

ExtensionsInit ==
    /\ extArgs \in ExtInputs
    /\ extResult = None
    /\ extPc = "call"

ExtensionsIdle == extArgs = Idle /\ extResult = Idle /\ extPc = Idle

\* validate_extension_modules(&json.python_major_minor_version, triple,
\* json.crt_features.contains("static"), &have_extensions)
ExtensionsValidate ==
    /\ extPc = "call"
    /\ extResult' = Some(ValidateExtensionModules(extArgs.python_major_minor,
                                                  extArgs.target_triple, extArgs.static_crt,
                                                  extArgs.have_extensions))
    /\ extPc' = "done"
    /\ UNCHANGED extArgs
    /\ UNCHANGED notExtVars

ExtensionsNext == ExtensionsValidate

-----------------------------------------------------------------------------
(* The Apple SDK index (macho.rs).  An SDK is a record                     *)
(* [version, path, files]: files maps the path of a .tbd file, relative to *)
(* the SDK, to [parses, records], the records being those the text stub    *)
(* parser yields for it.                                                   *)

\* tbd_relative_path: None is its Err.
tbd_relative_path(path) ==
    LET stripped == SubSeq(path, 2, Len(path))
    IN IF ~StartsWith(path, "/") THEN None
       ELSE IF EndsWith(stripped, ".dylib")
            THEN Some(SubSeq(stripped, 1, Len(stripped) - 6) \o ".tbd")
       ELSE Some(stripped \o ".tbd")

\* The keys under which one export section is entered: "{arch}-macos" in
\* versions 1 to 3, the targets in version 4.
ExportTargets(version, export) ==
    IF version = 4 THEN Range(export.targets)
    ELSE {arch \o "-macos" : arch \in Range(export.archs)}

\* The symbols one export section contributes.
ExportSymbols(version, export) ==
    LET infix == IF version \in {1, 2} THEN "$" ELSE "$_"
    IN Range(export.symbols)
          \cup {"_OBJC_CLASS_" \o infix \o cls : cls \in Range(export.objc_classes)}
          \cup {"_OBJC_METACLASS_" \o infix \o cls : cls \in Range(export.objc_classes)}

\* The weak symbols one export section contributes.
ExportWeakSymbols(version, export) ==
    IF version = 4 THEN Range(export.weak_symbols) ELSE Range(export.weak_def_symbols)

\* The re-export sections of a record: version 4 only.
RecordReExports(record) == IF record.version = 4 THEN record.re_exports ELSE <<>>

\* The keys of the maps of TbdMetadata::from_path.
TbdTargets(records) ==
    UNION {UNION {ExportTargets(records[r].version, records[r].exports[e])
                  : e \in DOMAIN records[r].exports}
           \cup UNION {Range(RecordReExports(records[r])[e].targets)
                       : e \in DOMAIN RecordReExports(records[r])}
           : r \in DOMAIN records}

\* The symbols entered under target, before the prefix is stripped.
TbdSymbols(records, target) ==
    UNION {UNION {ExportSymbols(records[r].version, records[r].exports[e])
                  : e \in {x \in DOMAIN records[r].exports :
                              target \in ExportTargets(records[r].version, records[r].exports[x])}}
           \cup UNION {Range(RecordReExports(records[r])[e].symbols)
                       : e \in {x \in DOMAIN RecordReExports(records[r]) :
                                   target \in Range(RecordReExports(records[r])[x].targets)}}
           : r \in DOMAIN records}

\* The weak symbols entered under target.
TbdWeakSymbols(records, target) ==
    UNION {UNION {ExportWeakSymbols(records[r].version, records[r].exports[e])
                  : e \in {x \in DOMAIN records[r].exports :
                              target \in ExportTargets(records[r].version, records[r].exports[x])}}
           \cup UNION {Range(RecordReExports(records[r])[e].weak_symbols)
                       : e \in {x \in DOMAIN RecordReExports(records[r]) :
                                   target \in Range(RecordReExports(records[r])[x].targets)}}
           : r \in DOMAIN records}

\* The re-exported library paths entered under target: versions 1 to 3 only.
TbdReExportPaths(records, target) ==
    UNION {UNION {Range(records[r].exports[e].re_exports)
                  : e \in {x \in DOMAIN records[r].exports :
                              /\ records[r].version # 4
                              /\ target \in ExportTargets(records[r].version,
                                                          records[r].exports[x])}}
           : r \in DOMAIN records}

\* The hack at the end of from_path: a symbol with the prefix is also entered
\* without it.
StripR8289209(symbols) ==
    symbols \cup {SubSeq(x, 10, Len(x)) : x \in {y \in symbols : StartsWith(y, "R8289209$")}}

\* TbdMetadata::from_path on the file at rel of the SDK: None is its Err (the
\* file cannot be read, or the text stub parser rejects it).
TbdFromPath(sdk, rel) ==
    LET records == sdk.files[rel].records
        targets == TbdTargets(records)
    IN IF rel \notin DOMAIN sdk.files THEN None
       ELSE IF ~sdk.files[rel].parses THEN None
       ELSE Some([symbols |-> [t \in targets |-> StripR8289209(TbdSymbols(records, t))],
                  weak_symbols |-> [t \in targets |-> TbdWeakSymbols(records, t)],
                  re_export_paths |->
                      [t \in {x \in targets :
                                 \E r \in DOMAIN records :
                                    /\ records[r].version # 4
                                    /\ \E e \in DOMAIN records[r].exports :
                                          x \in ExportTargets(records[r].version,
                                                              records[r].exports[e])}
                         |-> TbdReExportPaths(records, t)]])

\* A broken expansion: the libraries a re-exported library re-exports are
\* expanded as well.
ReExportedSymbolsTwoLevels(sdk, target, path) ==
    LET rel == tbd_relative_path(path)
        tbd_info == TbdFromPath(sdk, Unwrap(rel))
        further == MapGetOr(Unwrap(tbd_info).re_export_paths, target, {})
        loadable == {p \in further :
                        /\ IsSome(tbd_relative_path(p))
                        /\ IsSome(TbdFromPath(sdk, Unwrap(tbd_relative_path(p))))}
    IN IF ~IsSome(rel) THEN None
       ELSE IF ~IsSome(tbd_info) THEN None
       ELSE Some(MapGetOr(Unwrap(tbd_info).symbols, target, {})
                    \cup UNION {MapGetOr(Unwrap(TbdFromPath(sdk, Unwrap(tbd_relative_path(p)))).symbols,
                                         target, {})
                                : p \in loadable})

\* What one re-exported library adds for target; None when it cannot be loaded.
ReExportedSymbols(sdk, target, path) ==
    LET rel == tbd_relative_path(path)
        tbd_info == TbdFromPath(sdk, Unwrap(rel))
    IN IF ~IsSome(rel) THEN None
       ELSE IF ~IsSome(tbd_info) THEN None
       ELSE Some(MapGetOr(Unwrap(tbd_info).symbols, target, {}))

\* TbdMetadata::expand_file_references: None is its Err.
ExpandFileReferences(self, sdk) ==
    LET references == UNION {{<<t, p>> : p \in self.re_export_paths[t]}
                             : t \in DOMAIN self.re_export_paths}
        extra(t) == UNION {Unwrap(ReExportedSymbols(sdk, t, p)) : p \in self.re_export_paths[t]}
    IN IF \E ref \in references : ~IsSome(ReExportedSymbols(sdk, ref[1], ref[2])) THEN None
       ELSE Some([self EXCEPT !.symbols =
                     [t \in DOMAIN self.symbols |->
                         self.symbols[t] \cup (IF t \in DOMAIN self.re_export_paths
                                               THEN extra(t) ELSE {})]])

\* SdkVersion::normalized_version of the apple_sdk crate: one to three
\* components, each a u8; None is its Err.
SdkNormalizedVersion(version) ==
    LET parts == Split(version, ".")
        ints == [i \in 1..Len(parts) |-> U32FromStr(parts[i])]
    IN IF \E i \in 1..Len(parts) : ints[i] = ParseError \/ ints[i] > 255 THEN None
       ELSE IF Len(parts) = 1 THEN Some(<<ints[1], 0, 0>>)
       ELSE IF Len(parts) = 2 THEN Some(<<ints[1], ints[2], 0>>)
       ELSE IF Len(parts) = 3 THEN Some(<<ints[1], ints[2], ints[3]>>)
       ELSE None

\* Ord for semver::Version without pre-release: a >= b.
SemverAtLeast(a, b) ==
    \/ a[1] > b[1]
    \/ a[1] = b[1] /\ a[2] > b[2]
    \/ a[1] = b[1] /\ a[2] = b[2] /\ a[3] >= b[3]

\* A broken required_sdks: the minimum version is not looked at.
RequiredSdksOfAnyVersion(sdks, minimum_version) ==
    SelectSeq(sdks, LAMBDA sdk :
        /\ IsSome(sdk.version)
        /\ IsSome(SdkNormalizedVersion(Unwrap(sdk.version))))

\* IndexedSdks::required_sdks
RequiredSdks(sdks, minimum_version) ==
    SelectSeq(sdks, LAMBDA sdk :
        /\ IsSome(sdk.version)
        /\ IsSome(SdkNormalizedVersion(Unwrap(sdk.version)))
        /\ SemverAtLeast(Unwrap(SdkNormalizedVersion(Unwrap(sdk.version))), minimum_version))

\* A broken loop body: a library that the SDK does not have is reported for
\* every symbol and path instead of every path.
SdkLibraryErrorsPerSymbol(sdk, symbol_target, lib, symbols) ==
    LET rel == Unwrap(tbd_relative_path(lib))
        loaded == TbdFromPath(sdk, rel)
        tbd_info == ExpandFileReferences(Unwrap(loaded), sdk)
        target_symbols == MapGetOr(Unwrap(tbd_info).symbols, symbol_target, {})
        names == SortStrings(DOMAIN symbols.symbols)
        missing(symbol) ==
            LET paths == SortPaths(symbols.symbols[symbol])
            IN IF symbol \in target_symbols THEN <<>>
               ELSE [i \in 1..Len(paths) |->
                        paths[i] \o " references symbol " \o lib \o ":" \o symbol
                           \o " which doesn't exist in SDK " \o sdk.path]
        absent(symbol) ==
            LET paths == SortPaths(symbols.symbols[symbol])
            IN [i \in 1..Len(paths) |->
                   "library " \o lib \o " does not exist in SDK "
                      \o (IF IsSome(sdk.version) THEN Unwrap(sdk.version) ELSE "99.99")
                      \o "; " \o paths[i] \o " will likely fail to load"]
    IN IF IsSome(sdk.version)
          /\ SdkNormalizedVersion(Unwrap(sdk.version)) = SdkNormalizedVersion("10.9")
       THEN Some(<<>>)
       ELSE IF rel \in DOMAIN sdk.files
            THEN IF ~IsSome(loaded) THEN None
                 ELSE IF ~IsSome(tbd_info) THEN None
                 ELSE Some(Flatten([i \in 1..Len(names) |-> missing(names[i])]))
       ELSE Some(Flatten([i \in 1..Len(names) |-> absent(names[i])]))

\* The errors of one library against one SDK; None is an Err.
SdkLibraryErrors(sdk, symbol_target, lib, symbols) ==
    LET rel == Unwrap(tbd_relative_path(lib))
        loaded == TbdFromPath(sdk, rel)
        tbd_info == ExpandFileReferences(Unwrap(loaded), sdk)
        target_symbols == MapGetOr(Unwrap(tbd_info).symbols, symbol_target, {})
        names == SortStrings(DOMAIN symbols.symbols)
        all_paths == SortPaths(UNION {symbols.symbols[s] : s \in DOMAIN symbols.symbols})
        missing(symbol) ==
            LET paths == SortPaths(symbols.symbols[symbol])
            IN IF symbol \in target_symbols THEN <<>>
               ELSE [i \in 1..Len(paths) |->
                        paths[i] \o " references symbol " \o lib \o ":" \o symbol
                           \o " which doesn't exist in SDK " \o sdk.path]
    IN IF IsSome(sdk.version)
          /\ SdkNormalizedVersion(Unwrap(sdk.version)) = SdkNormalizedVersion("10.9")
       THEN Some(<<>>)
       ELSE IF rel \in DOMAIN sdk.files
            THEN IF ~IsSome(loaded) THEN None
                 ELSE IF ~IsSome(tbd_info) THEN None
                 ELSE Some(Flatten([i \in 1..Len(names) |-> missing(names[i])]))
       ELSE Some([i \in 1..Len(all_paths) |->
                     "library " \o lib \o " does not exist in SDK "
                        \o (IF IsSome(sdk.version) THEN Unwrap(sdk.version) ELSE "99.99")
                        \o "; " \o all_paths[i] \o " will likely fail to load"])

\* The loop over the SDKs for one library.
RECURSIVE SdkLoop(_, _, _, _, _)
SdkLoop(context, sdks, symbol_target, lib, symbols) ==
    IF sdks = <<>> THEN Ok(context)
    ELSE LET errors == SdkLibraryErrors(Head(sdks), symbol_target, lib, symbols)
         IN IF ~IsSome(errors) THEN Err
            ELSE SdkLoop(ExtendErrors(context, Unwrap(errors)), Tail(sdks), symbol_target,
                         lib, symbols)

\* The loop over the libraries of context.macho_undefined_symbols_strong.
RECURSIVE SdkLibraries(_, _, _, _, _)
SdkLibraries(context, sdks, symbol_target, libraries, libs) ==
    IF libs = <<>> THEN Ok(context)
    ELSE IF ~StartsWith(Head(libs), "/")
         THEN SdkLibraries(context, sdks, symbol_target, libraries, Tail(libs))
    ELSE LET looped == SdkLoop(context, sdks, symbol_target, Head(libs),
                               libraries[Head(libs)])
         IN IF looped.status # "ok" THEN looped
            ELSE SdkLibraries(looped.context, sdks, symbol_target, libraries, Tail(libs))

\* IndexedSdks::validate_context
ValidateContext(self, context, minimum_sdk, triple) ==
    LET symbol_target ==
            CASE triple = "aarch64-apple-darwin" -> Some("arm64e-macos")
              [] triple = "x86_64-apple-darwin" -> Some("x86_64-macos")
              [] OTHER -> None
        sdks == RequiredSdks(self.sdks, minimum_sdk)
    IN IF ~IsSome(symbol_target)
       THEN Ok(PushError(context,
                         "unknown target triple for Mach-O symbol analysis: " \o triple))
       ELSE IF sdks = <<>>
            THEN Ok(PushError(context,
                        "failed to resolve Apple SDKs to test against (this is likely a bug)"))
       ELSE SdkLibraries(context, sdks, Unwrap(symbol_target),
                         context.macho_undefined_symbols_strong.libraries,
                         SortStrings(DOMAIN context.macho_undefined_symbols_strong.libraries))

-----------------------------------------------------------------------------
(* SpecSdks: IndexedSdks::validate_context is called once, on a context    *)
(* that holds the symbols one Mach-O file needs from libSystem, against    *)
(* one SDK whose text stub of libSystem may re-export two other libraries. *)

\* An export section of a version 3 text stub.
ExportV3(archs, symbols, re_exports) ==
    [archs |-> archs, symbols |-> symbols, objc_classes |-> <<>>,
     weak_def_symbols |-> <<>>, re_exports |-> re_exports]

\* A version 3 text stub of one record with one export section.
StubV3(archs, symbols, re_exports) ==
    [parses |-> TRUE,
     records |-> <<[version |-> 3, exports |-> <<ExportV3(archs, symbols, re_exports)>>]>>]

SdkLibSystem == "/usr/lib/libSystem.B.dylib"
SdkLibC == "/usr/lib/system/libsystem_c.dylib"
SdkLibKernel == "/usr/lib/system/libsystem_kernel.dylib"

\* The SDK of the index: libSystem, libsystem_c and libsystem_kernel, each with
\* its symbols and the libraries it re-exports.
SdkOf(system, c, kernel) ==
    [version |-> Some("11.0"), path |-> "/sdks/MacOSX11.0.sdk",
     files |-> [rel \in {"usr/lib/libSystem.B.tbd", "usr/lib/system/libsystem_c.tbd",
                         "usr/lib/system/libsystem_kernel.tbd"} |->
                   CASE rel = "usr/lib/libSystem.B.tbd" -> system
                     [] rel = "usr/lib/system/libsystem_c.tbd" -> c
                     [] OTHER -> kernel]]

\* What the text stub of libSystem may be.
SdkSystemStubs ==
    {StubV3(<<"x86_64", "arm64e">>, symbols, re_exports) :
        symbols \in {<<>>, <<"_malloc">>},
        re_exports \in {<<>>, <<SdkLibC>>, <<SdkLibKernel>>, <<SdkLibC, SdkLibKernel>>,
                        <<"/usr/lib/system/libsystem_m.dylib">>}}

\* What the text stub of libsystem_c may be.
SdkCStubs ==
    {StubV3(archs, symbols, re_exports) :
        archs \in {<<"x86_64", "arm64e">>, <<"x86_64">>},
        symbols \in {<<>>, <<"_getentropy">>},
        re_exports \in {<<>>, <<SdkLibKernel>>}}

\* What the text stub of libsystem_kernel may be.
SdkKernelStubs ==
    {StubV3(<<"x86_64", "arm64e">>, symbols, <<>>) :
        symbols \in {<<>>, <<"_fork">>, <<"R8289209$_fork", "_getentropy">>}}

\* The context after a Mach-O file that needs three symbols of libSystem.
SdkContext ==
    [ValidationContextDefault EXCEPT
        !.macho_undefined_symbols_strong =
            RequiredSymbolsInsert(
                RequiredSymbolsInsert(
                    RequiredSymbolsInsert(RequiredSymbolsDefault, SdkLibSystem, "_malloc",
                                          "python/install/bin/python3.12"),
                    SdkLibSystem, "_getentropy", "python/install/bin/python3.12"),
                SdkLibSystem, "_fork", "python/install/bin/python3.12")]

SdkInputs ==
    [self : {[sdks |-> <<SdkOf(system, c, kernel)>>] :
                system \in SdkSystemStubs, c \in SdkCStubs, kernel \in SdkKernelStubs},
     context : {SdkContext},
     minimum_sdk : {<<11, 0, 0>>},
     triple : {"aarch64-apple-darwin", "x86_64-apple-darwin"}]

SdksInit ==
    /\ sdkArgs \in SdkInputs
    /\ sdkResult = None
    /\ sdkPc = "call"

SdksIdle == sdkArgs = Idle /\ sdkResult = Idle /\ sdkPc = Idle

\* sdks.validate_context(&mut context, minimum_sdk, triple)
SdksValidate ==
    /\ sdkPc = "call"
    /\ sdkResult' = Some(ValidateContext(sdkArgs.self, sdkArgs.context, sdkArgs.minimum_sdk,
                                         sdkArgs.triple))
    /\ sdkPc' = "done"
    /\ UNCHANGED sdkArgs
    /\ UNCHANGED notSdkVars

SdksNext == SdksValidate

\* The key of the triple in the maps of a text stub.
SdkSymbolTarget == IF sdkArgs.triple = "aarch64-apple-darwin" THEN "arm64e-macos" ELSE "x86_64-macos"

\* The manifest of a library of the SDK of the call, as from_path loads it.
SdkManifest(lib) == Unwrap(TbdFromPath(sdkArgs.self.sdks[1], Unwrap(tbd_relative_path(lib))))

\* The symbols of the manifest of a library for the target of the call.
SdkOwnSymbols(lib) == MapGetOr(SdkManifest(lib).symbols, SdkSymbolTarget, {})

\* The libraries the manifest of a library re-exports for the target of the call.
SdkReExports(lib) == MapGetOr(SdkManifest(lib).re_export_paths, SdkSymbolTarget, {})

\* The error of validate_context about a symbol of libSystem.
SdkMissingSymbol(symbol) ==
    "python/install/bin/python3.12 references symbol " \o SdkLibSystem \o ":" \o symbol
        \o " which doesn't exist in SDK /sdks/MacOSX11.0.sdk"

\* C12: when validate_context returns Ok, a symbol required of libSystem is
\* reported as missing from the SDK exactly when, for the target of the triple,
\* it is neither in the manifest of libSystem nor in a manifest that the manifest
\* of libSystem re-exports: a symbol of a re-exported manifest is resolved, a
\* symbol found only in a manifest that a re-exported manifest re-exports is not.
C12_OneLevelOfReExports ==
    sdkPc = "done" /\ Unwrap(sdkResult).status = "ok"
        => \A symbol \in {"_malloc", "_getentropy", "_fork"} :
              SdkMissingSymbol(symbol) \in Range(Unwrap(sdkResult).context.errors)
                  <=> /\ symbol \notin SdkOwnSymbols(SdkLibSystem)
                      /\ \A lib \in SdkReExports(SdkLibSystem) :
                             symbol \notin SdkOwnSymbols(lib)

\* validate_context returned after it resolved _getentropy through libsystem_c,
\* which libSystem re-exports, and reported _fork, which only libsystem_kernel
\* has, re-exported by libsystem_c and not by libSystem.
C12_Witness ==
    /\ sdkPc = "done"
    /\ Unwrap(sdkResult).status = "ok"
    /\ SdkReExports(SdkLibSystem) = {SdkLibC}
    /\ SdkReExports(SdkLibC) = {SdkLibKernel}
    /\ "_getentropy" \notin SdkOwnSymbols(SdkLibSystem)
    /\ "_getentropy" \in SdkOwnSymbols(SdkLibC)
    /\ "_fork" \in SdkOwnSymbols(SdkLibKernel)
    /\ "_fork" \notin SdkOwnSymbols(SdkLibSystem) \cup SdkOwnSymbols(SdkLibC)
    /\ SdkMissingSymbol("_getentropy") \notin Range(Unwrap(sdkResult).context.errors)
    /\ SdkMissingSymbol("_fork") \in Range(Unwrap(sdkResult).context.errors)

-----------------------------------------------------------------------------
(* SpecResolver: IndexedSdks::validate_context is called once, on the      *)
(* context a walk over an archive may leave behind and on an index of up   *)
(* to five SDKs, for one of several deployment targets.                    *)

\* The SDKs an index may hold, by ascending version: one without a version,
\* 10.9 without text stubs, 10.15 whose stub of libSystem is for x86_64 alone,
\* 11.0 with stubs of libSystem and libz, 13.1 with a stub of libSystem and an
\* unreadable stub of libz.
ResolverSdkPalette ==
    <<[version |-> None, path |-> "/sdks/MacOSX.sdk", files |-> EmptyMap],
      [version |-> Some("10.9"), path |-> "/sdks/MacOSX10.9.sdk", files |-> EmptyMap],
      [version |-> Some("10.15"), path |-> "/sdks/MacOSX10.15.sdk",
       files |-> [rel \in {"usr/lib/libSystem.B.tbd"} |->
                     StubV3(<<"x86_64">>, <<"_malloc", "_getentropy">>, <<>>)]],
      [version |-> Some("11.0"), path |-> "/sdks/MacOSX11.0.sdk",
       files |-> [rel \in {"usr/lib/libSystem.B.tbd", "usr/lib/libz.1.tbd"} |->
                     IF rel = "usr/lib/libSystem.B.tbd"
                     THEN StubV3(<<"x86_64", "arm64e">>, <<"_malloc">>, <<>>)
                     ELSE StubV3(<<"x86_64", "arm64e">>, <<"_inflate">>, <<>>)]],
      [version |-> Some("13.1"), path |-> "/sdks/MacOSX13.1.sdk",
       files |-> [rel \in {"usr/lib/libSystem.B.tbd", "usr/lib/libz.1.tbd"} |->
                     IF rel = "usr/lib/libSystem.B.tbd"
                     THEN StubV3(<<"x86_64", "arm64e">>, <<"_malloc", "_getentropy">>, <<>>)
                     ELSE [parses |-> FALSE, records |-> <<>>]]]>>

\* The SDKs of the palette at the positions of a set, in the order of the palette.
RECURSIVE ResolverSdksAt(_, _)
ResolverSdksAt(positions, from) ==
    IF from > Len(ResolverSdkPalette) THEN <<>>
    ELSE (IF from \in positions THEN <<ResolverSdkPalette[from]>> ELSE <<>>)
            \o ResolverSdksAt(positions, from + 1)

ResolverIndexes == {[sdks |-> ResolverSdksAt(P, 1)] : P \in SUBSET DOMAIN ResolverSdkPalette}

\* A table after the inserts of a list of (library, symbol, path).
RECURSIVE InsertAll(_, _)
InsertAll(table, refs) ==
    IF refs = <<>> THEN table
    ELSE InsertAll(RequiredSymbolsInsert(table, refs[1][1], refs[1][2], refs[1][3]), Tail(refs))

ResolverPython == "python/install/bin/python3.12"
ResolverLibpython == "python/install/lib/libpython3.12.dylib"

\* The contexts: what the strong and the weak table hold, and the errors
\* recorded before the call.
ResolverContexts ==
    {[ValidationContextDefault EXCEPT
         !.macho_undefined_symbols_strong = InsertAll(RequiredSymbolsDefault, c.strong),
         !.macho_undefined_symbols_weak = InsertAll(RequiredSymbolsDefault, c.weak),
         !.errors = c.errors] :
        c \in {[strong |-> <<<<SdkLibSystem, "_malloc", ResolverPython>>,
                             <<SdkLibSystem, "_getentropy", ResolverPython>>,
                             <<SdkLibSystem, "_getentropy", ResolverLibpython>>,
                             <<"/usr/lib/libz.1.dylib", "_inflate", ResolverLibpython>>,
                             <<"/usr/lib/libz.1.dylib", "_deflate", ResolverLibpython>>,
                             <<"@executable_path/../lib/libpython3.12.dylib",
                               "_Py_Initialize", ResolverPython>>>>,
                  weak |-> <<<<SdkLibSystem, "_weak_only", ResolverPython>>>>,
                  errors |-> <<>>],
                 [strong |-> <<<<SdkLibSystem, "_malloc", ResolverPython>>,
                             <<SdkLibSystem, "_fork", ResolverPython>>>>,
                  weak |-> <<>>,
                  errors |-> <<"python/install/bin/python3.12 loads illegal library /usr/lib/libfoo.dylib">>],
                 [strong |-> <<<<"@executable_path/../lib/libpython3.12.dylib",
                               "_Py_Initialize", ResolverPython>>>>,
                  weak |-> <<<<"/usr/lib/libz.1.dylib", "_deflate", ResolverPython>>>>,
                  errors |-> <<>>],
                 [strong |-> <<<<"/usr/lib/libedit.3.dylib", "_readline", ResolverPython>>,
                             <<"/usr/lib/libedit.3.dylib", "_readline", ResolverLibpython>>,
                             <<"/usr/lib/libedit.3.dylib", "_add_history", ResolverPython>>,
                             <<SdkLibSystem, "_malloc", ResolverPython>>>>,
                  weak |-> <<<<"/usr/lib/libedit.3.dylib", "_el_init", ResolverPython>>>>,
                  errors |-> <<>>]}}

ResolverInputs ==
    [self : ResolverIndexes,
     context : ResolverContexts,
     minimum_sdk : {<<10, 9, 0>>, <<10, 15, 0>>, <<11, 0, 0>>, <<14, 0, 0>>},
     triple : {"aarch64-apple-darwin", "x86_64-apple-darwin"}]

ResolverInit ==
    /\ sdkArgs \in ResolverInputs
    /\ sdkResult = None
    /\ sdkPc = "call"

-----------------------------------------------------------------------------
(* validate_distribution (validation.rs).                                  *)
(*                                                                         *)
(* dist is what the call is given: the path of the distribution, the SDK   *)
(* index, and the archive behind the path, None when it cannot be opened,  *)
(* else the sequence of its entries [path, link_name, readable, data].     *)
(* locals holds the local variables of the function under their names, pc  *)
(* its position, cursor the number of entries taken from the archive.      *)
(* validated lists the paths validate_possible_object_file was called on,  *)
(* checks the checks run after the loop over the entries, and result is    *)
(* None until the function ends, with Ok(errors), Err or a panic.          *)

\* The triple of lines 1653-1665: the first recognized triple the path holds
\* between dashes; None is the Err.
TripleOf(dist_path) ==
    LET dashes == {i \in 1..Len(dist_path) : SubSeq(dist_path, i, i) = "-"}
        found == SelectSeq(RECOGNIZED_TRIPLES,
                           LAMBDA t : \E i \in dashes :
                               /\ i + Len(t) + 1 <= Len(dist_path)
                               /\ SubSeq(dist_path, i, i + Len(t) + 1) = "-" \o t \o "-")
    IN IF found = <<>> THEN None ELSE Some(Head(found))

\* python_major_minor of lines 1667-1681; None is the Err.
PythonMajorMinorOf(dist_filename) ==
    CASE StartsWith(dist_filename, "cpython-3.9.") -> Some("3.9")
      [] StartsWith(dist_filename, "cpython-3.10.") -> Some("3.10")
      [] StartsWith(dist_filename, "cpython-3.11.") -> Some("3.11")
      [] StartsWith(dist_filename, "cpython-3.12.") -> Some("3.12")
      [] StartsWith(dist_filename, "cpython-3.13.") -> Some("3.13")
      [] StartsWith(dist_filename, "cpython-3.14.") -> Some("3.14")
      [] OTHER -> None

\* A broken flag: no triple is a static build.
IsStaticNever(triple) == FALSE

\* is_static of line 1685
IsStatic(triple) == Contains(triple, "unknown-linux-musl")

\* The local variables before the first statement.
LocalsDefault ==
    [context |-> ValidationContextDefault,
     seen_paths |-> {},
     seen_symlink_targets |-> {},
     triple |-> "",
     python_major_minor |-> "",
     is_debug |-> FALSE,
     is_static |-> FALSE,
     wanted_python_paths |-> {},
     json |-> None,
     bin_python |-> None,
     bin_python3 |-> None]

\* The checks after the loop over the entries, in the order of the code.
AllChecks ==
    <<"launchers", "symlink_targets", "python_paths", "required_dylibs",
      "windows_static_paths", "exported_symbols", "extension_modules", "apple_sdks",
      "object_paths">>

\* The function ends without a list: a `?` or a return of Err, or a panic.
Abort(outcome) ==
    /\ result' = Some(outcome)
    /\ pc' = "done"
    /\ UNCHANGED locals

\* A broken check: it empties the set of the libraries seen.
CheckedForgetsDylibs(name, context, next) ==
    /\ locals' = [locals EXCEPT !.context = [context EXCEPT !.seen_dylibs = {}]]
    /\ checks' = Append(checks, name)
    /\ pc' = next
    /\ UNCHANGED <<dist, cursor, validated, result>>

\* One check after the loop has run and left context behind.
Checked(name, context, next) ==
    /\ locals' = [locals EXCEPT !.context = context]
    /\ checks' = Append(checks, name)
    /\ pc' = next
    /\ UNCHANGED <<dist, cursor, validated, result>>

\* Lines 1643-1687: the triple, the Python version and the flags are taken from
\* the path, and the archive is opened.
Open ==
    /\ pc = "open"
    /\ LET dist_filename == FileName(dist.dist_path)
           found == TripleOf(dist.dist_path)
           python_major_minor == PythonMajorMinorOf(dist_filename)
       IN IF ~IsSome(found) THEN Abort(Err)
          ELSE IF ~IsSome(python_major_minor) THEN Abort(Err)
          ELSE IF ~IsSome(dist.archive) THEN Abort(Err)
          ELSE /\ locals' = [locals EXCEPT
                                !.triple = Unwrap(found),
                                !.python_major_minor = Unwrap(python_major_minor),
                                !.is_debug = Contains(dist_filename, "-debug-"),
                                !.is_static = IsStatic(Unwrap(found))]
               /\ pc' = "first"
               /\ UNCHANGED result
    /\ UNCHANGED <<dist, cursor, validated, checks>>
    /\ UNCHANGED notDistVars

\* Lines 1696-1718: what is made of the first entry once it is read; checked
\* is what validate_json returned.
FirstEntryRead(entry, parsed, checked) ==
    IF entry.path = "python/PYTHON.json"
    THEN IF ~IsSome(parsed) THEN Abort(Err) /\ UNCHANGED cursor
         ELSE IF checked.status # "ok" THEN Abort(checked) /\ UNCHANGED cursor
         ELSE /\ locals' =
                    [locals EXCEPT
                        !.seen_paths = @ \cup {entry.path},
                        !.json = parsed,
                        !.context = ExtendErrors(@, checked.errors),
                        !.wanted_python_paths =
                            @ \cup {"python/" \o x : x \in Range(Unwrap(parsed).python_paths)}]
              /\ cursor' = 1
              /\ pc' = "entries"
              /\ UNCHANGED result
    ELSE /\ locals' =
               [locals EXCEPT !.context =
                   PushError(@, "1st archive entry should be for python/PYTHON.json; got "
                                   \o entry.path)]
         /\ cursor' = 1
         /\ pc' = "entries"
         /\ UNCHANGED result

\* Lines 1689-1718: the first entry of the archive.
FirstEntry ==
    /\ pc = "first"
    /\ IF Unwrap(dist.archive) = <<>> THEN Abort(Panic) /\ UNCHANGED cursor
       ELSE IF ~Unwrap(dist.archive)[1].readable THEN Abort(Err) /\ UNCHANGED cursor
       ELSE \E parsed \in {ParsePythonJson(Unwrap(dist.archive)[1].data)} :
               FirstEntryRead(Unwrap(dist.archive)[1], parsed,
                              IF IsSome(parsed) /\ Unwrap(dist.archive)[1].path = "python/PYTHON.json"
                              THEN ValidateJson(Unwrap(parsed), locals.triple, locals.is_debug)
                              ELSE Err)
    /\ UNCHANGED <<dist, validated, checks>>
    /\ UNCHANGED notDistVars

\* members.sort(): the members of a static library by name.
SortMembers(members) ==
    LET names == SortStrings({members[i].name : i \in DOMAIN members})
    IN [i \in 1..Len(names) |-> members[CHOOSE j \in DOMAIN members : members[j].name = names[i]]]

\* A broken member path: the member goes under the path of its library.
MemberPathOfLibrary(path, member) == path

\* path.with_file_name(format!("{}:{}", file_name, member))
MemberPath(path, member) == WithFileName(path, FileName(path) \o ":" \o member)

\* Lines 1764-1782: the loop over the members of a static library.  called
\* lists the paths handed to validate_possible_object_file; checked is what it
\* returned for the first of the members.
RECURSIVE ArchiveMembers(_, _, _, _, _, _, _)
RECURSIVE ArchiveMember(_, _, _, _, _, _, _, _)
ArchiveMember(checked, context, called, json, python_major_minor, triple, path, members) ==
    IF checked.status # "ok"
    THEN [status |-> checked.status,
          called |-> Append(called, MemberPath(path, Head(members).name))]
    ELSE ArchiveMembers(ValidationContextMerge(context, checked.context),
                        Append(called, MemberPath(path, Head(members).name)),
                        json, python_major_minor, triple, path, Tail(members))

ArchiveMembers(context, called, json, python_major_minor, triple, path, members) ==
    IF members = <<>> THEN [status |-> "ok", context |-> context, called |-> called]
    ELSE IF ~Head(members).extractable THEN [status |-> "err", called |-> called]
    ELSE ArchiveMember(ValidatePossibleObjectFile(json, python_major_minor, triple,
                                                  MemberPath(path, Head(members).name),
                                                  Head(members).data),
                       context, called, json, python_major_minor, triple, path, members)

\* As EntryObjects, but a failure of validate_possible_object_file on the entry
\* is recorded as an error of the entry instead of being propagated.
EntryObjectsRecordsLocally(checked, context, json, python_major_minor, triple, path, data) ==
    IF checked.status # "ok"
    THEN [status |-> "ok", context |-> PushError(context, "failed to validate " \o path),
          called |-> <<path>>]
    ELSE IF data.kind = "ar"
         THEN ArchiveMembers(ValidationContextMerge(context, checked.context), <<path>>,
                             json, python_major_minor, triple, path,
                             SortMembers(data.members))
    ELSE [status |-> "ok", context |-> ValidationContextMerge(context, checked.context),
          called |-> <<path>>]

\* Lines 1750-1783: the entry is handed to validate_possible_object_file, and
\* so are its members if it is a static library; checked is what the call
\* on the entry returned.
EntryObjects(checked, context, json, python_major_minor, triple, path, data) ==
    IF checked.status # "ok" THEN [status |-> checked.status, called |-> <<path>>]
    ELSE IF data.kind = "ar"
         THEN ArchiveMembers(ValidationContextMerge(context, checked.context), <<path>>,
                             json, python_major_minor, triple, path,
                             SortMembers(data.members))
    ELSE [status |-> "ok", context |-> ValidationContextMerge(context, checked.context),
          called |-> <<path>>]

\* data.starts_with(b"#!/install") || data.starts_with(b"#!/build")
BuildShebang(data) ==
    /\ data.kind = "text"
    /\ (StartsWith(data.text, "#!/install") \/ StartsWith(data.text, "#!/build"))

\* A broken loop body: python3 is to come after python in the archive.
EntryErrorsWantsPythonFirst(entry) ==
    (IF BuildShebang(entry.data) THEN <<entry.path \o " has #!/install shebang">> ELSE <<>>)
    \o (IF entry.path = "python/PYTHON.json" THEN <<"python/PYTHON.json seen twice">>
        ELSE <<>>)
    \o (IF entry.path = "python/install/bin/python" /\ ~IsSome(entry.link_name)
        THEN <<"python/install/bin/python is not a symlink">> ELSE <<>>)
    \o (IF entry.path = "python/install/bin/python3"
           /\ (~IsSome(entry.link_name) \/ ~IsSome(locals.bin_python))
        THEN <<"python/install/bin/python3 is not a symlink">> ELSE <<>>)

\* Lines 1785-1816: what the rest of the loop body pushes for the entry.
EntryErrors(entry) ==
    (IF BuildShebang(entry.data) THEN <<entry.path \o " has #!/install shebang">> ELSE <<>>)
    \o (IF entry.path = "python/PYTHON.json" THEN <<"python/PYTHON.json seen twice">>
        ELSE <<>>)
    \o (IF entry.path = "python/install/bin/python" /\ ~IsSome(entry.link_name)
        THEN <<"python/install/bin/python is not a symlink">> ELSE <<>>)
    \o (IF entry.path = "python/install/bin/python3" /\ ~IsSome(entry.link_name)
        THEN <<"python/install/bin/python3 is not a symlink">> ELSE <<>>)

\* A broken loop body: a link is resolved when it is met, against the paths
\* seen so far.
EntryReadResolvesLinksAtOnce(entry, objects) ==
    IF objects.status # "ok"
    THEN /\ Abort([status |-> objects.status])
         /\ validated' = validated \o objects.called
         /\ UNCHANGED cursor
    ELSE /\ locals' =
               [locals EXCEPT
                   !.seen_paths = @ \cup {entry.path},
                   !.wanted_python_paths = {p \in @ : ~PathStartsWith(entry.path, p)},
                   !.context =
                       ExtendErrors(objects.context,
                                    EntryErrors(entry)
                                       \o (IF /\ IsSome(entry.link_name)
                                              /\ Normalize(PathJoin(Parent(entry.path),
                                                                    Unwrap(entry.link_name)))
                                                    \notin locals.seen_paths
                                           THEN <<"symlink target "
                                                     \o Normalize(PathJoin(Parent(entry.path),
                                                                           Unwrap(entry.link_name)))
                                                     \o " referenced in archive but not found">>
                                           ELSE <<>>)),
                   !.bin_python =
                       IF entry.path = "python/install/bin/python" /\ IsSome(entry.link_name)
                       THEN entry.link_name ELSE @,
                   !.bin_python3 =
                       IF entry.path = "python/install/bin/python3" /\ IsSome(entry.link_name)
                       THEN entry.link_name ELSE @]
         /\ validated' = validated \o objects.called
         /\ cursor' = cursor + 1
         /\ UNCHANGED <<pc, result>>

\* Lines 1725-1817: what is made of an entry once it is read; objects is what
\* the validation of the entry and of its members came to.
EntryRead(entry, objects) ==
    IF objects.status # "ok"
    THEN /\ Abort([status |-> objects.status])
         /\ validated' = validated \o objects.called
         /\ UNCHANGED cursor
    ELSE /\ locals' =
               [locals EXCEPT
                   !.seen_paths = @ \cup {entry.path},
                   !.seen_symlink_targets =
                       IF IsSome(entry.link_name)
                       THEN @ \cup {Normalize(PathJoin(Parent(entry.path),
                                                       Unwrap(entry.link_name)))}
                       ELSE @,
                   !.wanted_python_paths = {p \in @ : ~PathStartsWith(entry.path, p)},
                   !.context = ExtendErrors(objects.context, EntryErrors(entry)),
                   !.bin_python =
                       IF entry.path = "python/install/bin/python" /\ IsSome(entry.link_name)
                       THEN entry.link_name ELSE @,
                   !.bin_python3 =
                       IF entry.path = "python/install/bin/python3" /\ IsSome(entry.link_name)
                       THEN entry.link_name ELSE @]
         /\ validated' = validated \o objects.called
         /\ cursor' = cursor + 1
         /\ UNCHANGED <<pc, result>>

\* Lines 1723-1817: the body of the loop over the remaining entries, for the
\* next entry of the archive.
NextEntry ==
    /\ pc = "entries"
    /\ cursor < Len(Unwrap(dist.archive))
    /\ \E entry \in {Unwrap(dist.archive)[cursor + 1]} :
          IF ~entry.readable THEN Abort(Err) /\ UNCHANGED <<cursor, validated>>
          ELSE IF ~IsSome(locals.json) THEN Abort(Panic) /\ UNCHANGED <<cursor, validated>>
          ELSE \E objects \in
                    {EntryObjects(ValidatePossibleObjectFile(Unwrap(locals.json),
                                                             locals.python_major_minor,
                                                             locals.triple, entry.path,
                                                             entry.data),
                                  locals.context, Unwrap(locals.json),
                                  locals.python_major_minor, locals.triple, entry.path,
                                  entry.data)} :
                  EntryRead(entry, objects)
    /\ UNCHANGED <<dist, checks>>
    /\ UNCHANGED notDistVars

\* A broken comparison: one of the two launchers is enough.
LaunchersOneSuffices ==
    /\ pc = "entries"
    /\ cursor = Len(Unwrap(dist.archive))
    /\ LET context == locals.context
           python == locals.bin_python
           python3 == locals.bin_python3
       IN Checked("launchers",
                  CASE ~IsSome(python) /\ ~IsSome(python3) ->
                          IF ~Contains(locals.triple, "-windows-")
                          THEN PushError(context,
                                         "install/bin/python and python3 entries missing")
                          ELSE context
                    [] ~IsSome(python) /\ IsSome(python3) -> context
                    [] IsSome(python) /\ ~IsSome(python3) -> context
                    [] OTHER ->
                          IF Unwrap(python) # Unwrap(python3)
                          THEN PushError(context,
                                  "symlink targets of install/bin/python and python3 vary: "
                                     \o Unwrap(python) \o " !+ " \o Unwrap(python3))
                          ELSE context,
                  "symlink_targets")
    /\ UNCHANGED notDistVars

\* Lines 1819-1844: the archive is read; the two launchers are compared.
Launchers ==
    /\ pc = "entries"
    /\ cursor = Len(Unwrap(dist.archive))
    /\ LET context == locals.context
           python == locals.bin_python
           python3 == locals.bin_python3
       IN Checked("launchers",
                  CASE ~IsSome(python) /\ ~IsSome(python3) ->
                          IF ~Contains(locals.triple, "-windows-")
                          THEN PushError(context,
                                         "install/bin/python and python3 entries missing")
                          ELSE context
                    [] ~IsSome(python) /\ IsSome(python3) ->
                          PushError(context, "install/bin/python symlink missing")
                    [] IsSome(python) /\ ~IsSome(python3) ->
                          PushError(context, "install/bin/python3 symlink missing")
                    [] OTHER ->
                          IF Unwrap(python) # Unwrap(python3)
                          THEN PushError(context,
                                  "symlink targets of install/bin/python and python3 vary: "
                                     \o Unwrap(python) \o " !+ " \o Unwrap(python3))
                          ELSE context,
                  "symlink_targets")
    /\ UNCHANGED notDistVars

\* Lines 1848-1855: every symlink target is a path of the archive.
SymlinkTargets ==
    /\ pc = "symlink_targets"
    /\ LET missing == SortPaths(locals.seen_symlink_targets \ locals.seen_paths)
       IN Checked("symlink_targets",
                  ExtendErrors(locals.context,
                               [i \in 1..Len(missing) |->
                                   "symlink target " \o missing[i]
                                      \o " referenced in archive but not found"]),
                  "python_paths")
    /\ UNCHANGED notDistVars

\* A broken check: it stops at the first prefix that was not met.
PythonPathsReportsOne ==
    /\ pc = "python_paths"
    /\ LET unseen == SortStrings(locals.wanted_python_paths)
       IN Checked("python_paths",
                  ExtendErrors(locals.context,
                               [i \in 1..(IF unseen = <<>> THEN 0 ELSE 1) |->
                                   "path prefix " \o unseen[i]
                                      \o " seen in python_paths does not appear in archive"]),
                  "required_dylibs")
    /\ UNCHANGED notDistVars

\* Lines 1857-1862: every prefix of python_paths was met.
PythonPaths ==
    /\ pc = "python_paths"
    /\ LET unseen == SortStrings(locals.wanted_python_paths)
       IN Checked("python_paths",
                  ExtendErrors(locals.context,
                               [i \in 1..Len(unseen) |->
                                   "path prefix " \o unseen[i]
                                      \o " seen in python_paths does not appear in archive"]),
                  "required_dylibs")
    /\ UNCHANGED notDistVars

\* A broken check: it reports every required library, loaded or not.
RequiredDylibsWithoutSeen ==
    /\ pc = "required_dylibs"
    /\ LET allowed == allowed_dylibs_for_triple(locals.triple)
           wanted_dylibs == {allowed[i].name : i \in {j \in DOMAIN allowed : allowed[j].required}}
           unseen == SortStrings(wanted_dylibs)
       IN Checked("required_dylibs",
                  ExtendErrors(locals.context,
                               [i \in 1..Len(unseen) |->
                                   "required library dependency " \o unseen[i] \o " not seen"]),
                  "windows_static_paths")
    /\ UNCHANGED notDistVars

\* Lines 1864-1875: every required library of the triple was loaded.
RequiredDylibs ==
    /\ pc = "required_dylibs"
    /\ LET allowed == allowed_dylibs_for_triple(locals.triple)
           wanted_dylibs == {allowed[i].name : i \in {j \in DOMAIN allowed : allowed[j].required}}
           unseen == SortStrings(wanted_dylibs \ locals.context.seen_dylibs)
       IN Checked("required_dylibs",
                  ExtendErrors(locals.context,
                               [i \in 1..Len(unseen) |->
                                   "required library dependency " \o unseen[i] \o " not seen"]),
                  "windows_static_paths")
    /\ UNCHANGED notDistVars

\* Lines 1877-1883: the import libraries of a static Windows distribution.
WindowsStaticPaths ==
    /\ pc = "windows_static_paths"
    /\ LET unseen == SortPaths(WANTED_WINDOWS_STATIC_PATHS \ locals.seen_paths)
       IN Checked("windows_static_paths",
                  IF Contains(locals.triple, "-windows-") /\ locals.is_static
                  THEN ExtendErrors(locals.context,
                                    [i \in 1..Len(unseen) |->
                                        "required path " \o unseen[i] \o " not seen"])
                  ELSE locals.context,
                  "exported_symbols")
    /\ UNCHANGED notDistVars

\* Lines 1885-1903: what libpython exports.
ExportedSymbols ==
    /\ pc = "exported_symbols"
    /\ LET exported_symbols == locals.context.libpython_exported_symbols
           wanted == ~locals.is_static
           c1 == IF exported_symbols = {} /\ ~locals.is_static
                 THEN PushError(locals.context, "libpython does not export any symbols")
                 ELSE locals.context
           wrong == SelectSeq(PYTHON_EXPORTED_SYMBOLS,
                              LAMBDA symbol : (symbol \in exported_symbols) # wanted)
       IN Checked("exported_symbols",
                  ExtendErrors(c1, [i \in 1..Len(wrong) |->
                                       "libpython "
                                          \o (IF wanted THEN "doesn't export" ELSE "exports")
                                          \o " " \o wrong[i]]),
                  "extension_modules")
    /\ UNCHANGED notDistVars

\* A broken loop body: an extension in the core may be a shared library.
ExtensionVariantSharedInCore(name, ext, seen_paths, exported_symbols, triple, python_major_minor, is_static) ==
    LET e1 == IF /\ IsSome(ext.shared_lib)
                 /\ PathJoin("python", Unwrap(ext.shared_lib)) \notin seen_paths
              THEN <<"extension module " \o name
                        \o " references missing shared library path "
                        \o Unwrap(ext.shared_lib)>>
              ELSE <<>>
        want_shared == IF is_static THEN FALSE
                       ELSE IF Contains(triple, "windows") THEN TRUE
                       ELSE name \in SHARED_LIBRARY_EXTENSIONS
        e2 == IF want_shared /\ ~IsSome(ext.shared_lib)
              THEN <<"extension module " \o name \o " does not have a shared library">>
              ELSE IF ~want_shared /\ IsSome(ext.shared_lib)
              THEN <<"extension module " \o name \o " contains a shared library unexpectedly">>
              ELSE <<>>
        exported == ext.init_fn \in exported_symbols
        wanted == IF is_static THEN FALSE
                  ELSE IF name = "_warnings"
                       THEN (IF Contains(triple, "-windows-")
                             THEN python_major_minor \in {"3.9", "3.10", "3.11", "3.12"}
                             ELSE TRUE)
                  ELSE IF Contains(triple, "-windows-") THEN FALSE
                  ELSE IF IsSome(ext.shared_lib) THEN FALSE
                  ELSE TRUE
        e3 == IF ext.init_fn # "NULL" /\ exported # wanted
              THEN <<"libpython " \o (IF wanted THEN "doesn't export" ELSE "exports") \o " "
                        \o ext.init_fn \o " for extension module " \o name>>
              ELSE <<>>
    IN e1 \o e2 \o e3

\* Lines 1907-1985: the body of the loop over the variants of an extension.
ExtensionVariant(name, ext, seen_paths, exported_symbols, triple, python_major_minor, is_static) ==
    LET e1 == IF /\ IsSome(ext.shared_lib)
                 /\ PathJoin("python", Unwrap(ext.shared_lib)) \notin seen_paths
              THEN <<"extension module " \o name
                        \o " references missing shared library path "
                        \o Unwrap(ext.shared_lib)>>
              ELSE <<>>
        want_shared == IF is_static THEN FALSE
                       ELSE IF ext.in_core THEN FALSE
                       ELSE IF Contains(triple, "windows") THEN TRUE
                       ELSE name \in SHARED_LIBRARY_EXTENSIONS
        e2 == IF want_shared /\ ~IsSome(ext.shared_lib)
              THEN <<"extension module " \o name \o " does not have a shared library">>
              ELSE IF ~want_shared /\ IsSome(ext.shared_lib)
              THEN <<"extension module " \o name \o " contains a shared library unexpectedly">>
              ELSE <<>>
        exported == ext.init_fn \in exported_symbols
        wanted == IF is_static THEN FALSE
                  ELSE IF name = "_warnings"
                       THEN (IF Contains(triple, "-windows-")
                             THEN python_major_minor \in {"3.9", "3.10", "3.11", "3.12"}
                             ELSE TRUE)
                  ELSE IF Contains(triple, "-windows-") THEN FALSE
                  ELSE IF IsSome(ext.shared_lib) THEN FALSE
                  ELSE TRUE
        e3 == IF ext.init_fn # "NULL" /\ exported # wanted
              THEN <<"libpython " \o (IF wanted THEN "doesn't export" ELSE "exports") \o " "
                        \o ext.init_fn \o " for extension module " \o name>>
              ELSE <<>>
    IN e1 \o e2 \o e3

\* The errors of the variants of one extension.
ExtensionErrors(name, variants, st) ==
    Flatten([v \in DOMAIN variants |->
                ExtensionVariant(name, variants[v], st.seen_paths,
                                 st.context.libpython_exported_symbols, st.triple,
                                 st.python_major_minor, st.is_static)])

\* Lines 1905-1986: the metadata of the extension modules.  The map is walked
\* in the order of its keys; the extensions without an error add nothing, so
\* only the others are put in order.
ExtensionModules ==
    /\ pc = "extension_modules"
    /\ IF ~IsSome(locals.json)
       THEN Abort(Panic) /\ UNCHANGED <<dist, cursor, validated, checks>>
       ELSE \E extensions \in {Unwrap(locals.json).build_info.extensions} :
            \E flawed \in {SortStrings({name \in DOMAIN extensions :
                                ExtensionErrors(name, extensions[name], locals) # <<>>})} :
               Checked("extension_modules",
                       ExtendErrors(locals.context,
                                    Flatten([i \in 1..Len(flawed) |->
                                                ExtensionErrors(flawed[i],
                                                                extensions[flawed[i]],
                                                                locals)])),
                       "apple_sdks")
    /\ UNCHANGED notDistVars

\* A broken analysis: the errors of the checks before it are dropped.
AppleTargetingAlone(value, target_minimum_sdk) ==
    IF IsSome(value) /\ IsSome(target_minimum_sdk)
    THEN \E analysed \in {ValidateContext(Unwrap(dist.macos_sdks),
                                          [locals.context EXCEPT !.errors = <<>>],
                                          Unwrap(target_minimum_sdk), locals.triple)} :
            IF analysed.status # "ok"
            THEN Abort(Err) /\ UNCHANGED <<dist, cursor, validated, checks>>
            ELSE Checked("apple_sdks", analysed.context, "object_paths")
    ELSE Abort(Err) /\ UNCHANGED <<dist, cursor, validated, checks>>

\* Lines 1992-2001: the analysis against the SDKs, for the deployment target
\* value that PYTHON.json advertises.
AppleTargeting(value, target_minimum_sdk) ==
    IF IsSome(value)
    THEN IF ~IsSome(target_minimum_sdk)
         THEN Abort(Err) /\ UNCHANGED <<dist, cursor, validated, checks>>
         ELSE \E analysed \in {ValidateContext(Unwrap(dist.macos_sdks), locals.context,
                                               Unwrap(target_minimum_sdk), locals.triple)} :
                 IF analysed.status # "ok"
                 THEN Abort(Err) /\ UNCHANGED <<dist, cursor, validated, checks>>
                 ELSE Checked("apple_sdks", analysed.context, "object_paths")
    ELSE Checked("apple_sdks",
                 PushError(locals.context,
                    "cannot perform Apple targeting analysis due to missing SDK advertisement"),
                 "object_paths")

\* Lines 1988-2003: the symbols and libraries of the Mach-O files against the
\* SDKs.
AppleSdks ==
    /\ pc = "apple_sdks"
    /\ IF Contains(locals.triple, "-apple-darwin") /\ IsSome(dist.macos_sdks)
       THEN \E value \in {Unwrap(locals.json).apple_sdk_deployment_target} :
               AppleTargeting(value,
                              IF IsSome(value) THEN SemverParse(Unwrap(value) \o ".0")
                              ELSE None)
       ELSE Checked("apple_sdks", locals.context, "object_paths")
    /\ UNCHANGED notDistVars

\* Lines 2005-2015: every object file PYTHON.json names is in the archive.
ObjectPaths ==
    /\ pc = "object_paths"
    /\ LET object_paths == SortStrings({p \in AllObjectPaths(Unwrap(locals.json)) :
                                           PathJoin("python", p) \notin locals.seen_paths})
       IN Checked("object_paths",
                  ExtendErrors(locals.context,
                               [i \in 1..Len(object_paths) |->
                                   "PYTHON.json referenced object file not in tar archive: "
                                      \o PathJoin("python", object_paths[i])]),
                  "return")
    /\ UNCHANGED notDistVars

\* Line 2017: Ok(context.errors)
Return ==
    /\ pc = "return"
    /\ result' = Some([status |-> "ok", errors |-> locals.context.errors])
    /\ pc' = "done"
    /\ UNCHANGED <<dist, locals, cursor, validated, checks>>
    /\ UNCHANGED notDistVars

-----------------------------------------------------------------------------
(* SpecDistribution: validate_distribution is called once on a             *)
(* distribution.                                                           *)

\* The most entries an archive of this specification has after its first.
MaxEntries == 2

Text(text) == [kind |-> "text", text |-> text]

File(path, data) == [path |-> path, link_name |-> None, readable |-> TRUE, data |-> data]

Link(path, link_name) ==
    [path |-> path, link_name |-> Some(link_name), readable |-> TRUE, data |-> Text("")]

\* An extension variant built into libpython, without an init function to export.
CoreVariant ==
    [in_core |-> TRUE, init_fn |-> "NULL", shared_lib |-> None, objs |-> <<>>, links |-> <<>>]

\* The variants of the extensions of the PYTHON.json files below.
Variants(name) ==
    CASE name = "_crypt" ->
            <<[in_core |-> FALSE, init_fn |-> "PyInit__crypt",
               shared_lib |-> Some("install/lib/python3.9/lib-dynload/_crypt.cpython-39-x86_64-linux-gnu.so"),
               objs |-> <<>>,
               links |-> <<[name |-> "crypt", system |-> Some(TRUE)]>>]>>
      [] name = "_warnings" ->
            <<[in_core |-> TRUE, init_fn |-> "_PyWarnings_Init", shared_lib |-> None,
               objs |-> <<"build/Python/_warnings.o">>, links |-> <<>>]>>
      [] name = "_ctypes" ->
            <<[in_core |-> TRUE, init_fn |-> "PyInit__ctypes", shared_lib |-> None,
               objs |-> <<>>, links |-> <<[name |-> "dl", system |-> Some(TRUE)]>>]>>
      [] OTHER -> <<CoreVariant>>

\* PYTHON.json of a CPython 3.9 for x86_64-unknown-linux-gnu, at version 7 of
\* the format.
LinuxJson ==
    [version |-> "7",
     apple_sdk_canonical_name |-> None,
     apple_sdk_deployment_target |-> None,
     apple_sdk_platform |-> None,
     apple_sdk_version |-> None,
     build_info |->
        [core |-> [objs |-> <<"build/Objects/abstract.o">>,
                   links |-> <<[name |-> "m", system |-> Some(TRUE)]>>],
         extensions |->
            [name \in WantedExtensions("3.9", "x86_64-unknown-linux-gnu", FALSE) |->
                Variants(name)]],
     crt_features |-> <<"glibc-dynamic">>,
     python_config_vars |-> [k \in {"SOABI"} |-> "cpython-39-x86_64-linux-gnu"],
     python_major_minor_version |-> "3.9",
     python_paths |->
        [k \in {"stdlib", "purelib"} |->
            IF k = "stdlib" THEN "install/lib/python3.9"
            ELSE "install/lib/python3.9/site-packages"],
     python_platform_tag |-> "linux-x86_64"]

\* PYTHON.json of a debug CPython 3.12 for aarch64-apple-darwin.
DarwinJson ==
    [version |-> "8",
     apple_sdk_canonical_name |-> Some("macosx13.1"),
     apple_sdk_deployment_target |-> Some("11.0"),
     apple_sdk_platform |-> Some("macosx"),
     apple_sdk_version |-> Some("13.1"),
     build_info |->
        [core |-> [objs |-> <<>>, links |-> <<>>],
         extensions |->
            [name \in WantedExtensions("3.12", "aarch64-apple-darwin", FALSE) \cup {"nis"} |->
                <<CoreVariant>>]],
     crt_features |-> <<>>,
     python_config_vars |-> [k \in {"abiflags"} |-> "d"],
     python_major_minor_version |-> "3.12",
     python_paths |-> [k \in {"stdlib"} |-> "install/lib/python3.12"],
     python_platform_tag |-> "macosx-11.0-arm64"]

\* PYTHON.json of a CPython 3.9 for x86_64-unknown-linux-musl.
MuslJson ==
    [LinuxJson EXCEPT
        !.version = "8",
        !.crt_features = <<"static">>,
        !.build_info.extensions =
            [name \in WantedExtensions("3.9", "x86_64-unknown-linux-musl", TRUE) |->
                <<CoreVariant>>]]

\* PYTHON.json of a CPython 3.9 for x86_64-pc-windows-msvc with a static CRT.
WindowsStaticJson ==
    [LinuxJson EXCEPT
        !.version = "8",
        !.crt_features = <<"static">>,
        !.python_platform_tag = "win-amd64",
        !.build_info.core.objs = <<>>,
        !.python_paths = [k \in {"stdlib"} |-> "install/Lib"],
        !.build_info.extensions =
            [name \in WantedExtensions("3.9", "x86_64-pc-windows-msvc", TRUE) |->
                <<CoreVariant>>]]

JsonEntry(json) == File("python/PYTHON.json", [kind |-> "json", json |-> json])

\* Extension variants outside the core, with and without a shared library.
SharedVariant(shared_lib) ==
    [in_core |-> FALSE, init_fn |-> "NULL", shared_lib |-> Some(shared_lib), objs |-> <<>>,
     links |-> <<>>]

StaticVariant ==
    [in_core |-> FALSE, init_fn |-> "NULL", shared_lib |-> None, objs |-> <<>>, links |-> <<>>]

CryptSharedLib == "install/lib/python3.9/lib-dynload/_crypt.cpython-39-x86_64-linux-gnu.so"

\* The variants of a POSIX PYTHON.json that has _crypt with and without its
\* shared library, _bz2 with one, and _ctypes in the core and with one.
PosixVariants(name) ==
    CASE name = "_crypt" -> <<SharedVariant(CryptSharedLib), StaticVariant>>
      [] name = "_bz2" -> <<SharedVariant("install/lib/python3.9/lib-dynload/_bz2.so")>>
      [] name = "_ctypes" -> <<[CoreVariant EXCEPT !.shared_lib = Some(CryptSharedLib)]>>
      [] OTHER -> <<CoreVariant>>

LinuxVariantsJson ==
    [LinuxJson EXCEPT
        !.version = "8",
        !.build_info.extensions =
            [name \in WantedExtensions("3.9", "x86_64-unknown-linux-gnu", FALSE) |->
                PosixVariants(name)]]

MuslVariantsJson ==
    [MuslJson EXCEPT
        !.build_info.extensions =
            [name \in WantedExtensions("3.9", "x86_64-unknown-linux-musl", TRUE) |->
                PosixVariants(name)]]

\* PYTHON.json of a CPython 3.9 for x86_64-pc-windows-msvc with a dynamic CRT:
\* _ctypes and pyexpat with a DLL, _bz2 outside the core without one.
WindowsSharedJson ==
    [WindowsStaticJson EXCEPT
        !.crt_features = <<"vcruntime:140">>,
        !.build_info.extensions =
            [name \in WantedExtensions("3.9", "x86_64-pc-windows-msvc", FALSE) |->
                CASE name = "_ctypes" -> <<SharedVariant("install/DLLs/_ctypes.pyd")>>
                  [] name = "pyexpat" -> <<SharedVariant("install/DLLs/pyexpat.pyd")>>
                  [] name = "_bz2" -> <<StaticVariant>>
                  [] OTHER -> <<CoreVariant>>]]

\* A shared libpython for x86-64 that needs a library off the allow-list,
\* exports two of the three well-known symbols and refers to a glibc 2.25 symbol.
LibpythonElf ==
    [e_machine |-> EM_X86_64, e_type |-> "ET_DYN", sections_corrupt |-> FALSE,
     sections |->
        <<DynamicSection(<<Needed("libc.so.6"), Needed("libfoo.so.1")>>),
          SymbolSection("SHT_DYNSYM",
                        <<Defined("Py_Initialize", None, "STB_GLOBAL", "STV_DEFAULT"),
                          Defined("PyList_New", None, "STB_GLOBAL", "STV_DEFAULT"),
                          Defined("_PyWarnings_Init", None, "STB_GLOBAL", "STV_DEFAULT"),
                          Undefined("getrandom", Some("GLIBC_2.25"))>>)>>]

\* An object file that refers to a banned symbol.
BannedObjectElf ==
    [e_machine |-> EM_X86_64, e_type |-> "ET_REL", sections_corrupt |-> FALSE,
     sections |-> <<SymbolSection("SHT_SYMTAB", <<Undefined("pthread_yield", None)>>)>>]

\* An object file that refers to symbols that are not banned.
CleanObjectElf ==
    [e_machine |-> EM_X86_64, e_type |-> "ET_REL", sections_corrupt |-> FALSE,
     sections |-> <<SymbolSection("SHT_SYMTAB",
                                  <<Undefined("memcpy", None),
                                    Defined("ffi_call", None, "STB_GLOBAL", "STV_HIDDEN")>>)>>]

\* An object file whose section table cannot be read.
UnreadableObjectElf ==
    [e_machine |-> EM_X86_64, e_type |-> "ET_REL", sections_corrupt |-> TRUE,
     sections |-> <<>>]

\* A libpython for arm64 that loads libSystem and refers to two of its symbols.
LibpythonMacho ==
    [cputype |-> CPU_TYPE_ARM64, filetype |-> "MH_DYLIB", twolevel |-> TRUE,
     corrupt |-> FALSE,
     commands |->
        <<Dylib("/usr/lib/libSystem.B.dylib", 1, 0, 0),
          [cmd |-> "Symtab",
           symbols |-> <<MachoUndefined("_malloc", 1, FALSE),
                         MachoUndefined("_getentropy", 1, FALSE),
                         MachoDefined("_Py_Initialize", TRUE, FALSE)>>]>>]

\* A Mach-O object file that names libz and a library off the allow-list.
ZlibObjectMacho ==
    [cputype |-> CPU_TYPE_ARM64, filetype |-> "MH_OBJECT", twolevel |-> FALSE,
     corrupt |-> FALSE,
     commands |-> <<Dylib("/usr/lib/libz.1.dylib", 1, 0, 0),
                    Dylib("/usr/lib/libfoo.dylib", 1, 0, 0)>>]

\* A DLL that imports a library off the allow-list.
PythonDll ==
    [import_table |-> Some(<<"KERNEL32.dll", "foo.dll">>), corrupt |-> FALSE,
     exports |-> <<"Py_Initialize">>]

\* The entries an archive of this specification holds after its first.
EntryPalette ==
    {Link("python/install/bin/python", "python3.9"),
     Link("python/install/bin/python3", "../bin/./python3.9"),
     File("python/install/lib/libpython3.9.so.1.0",
          [kind |-> "elf", parses |-> TRUE, elf |-> LibpythonElf]),
     File("python/install/bin/python3.9", [kind |-> "elf", parses |-> FALSE]),
     File("python/install/lib/libpython3.12.dylib",
          [kind |-> "macho", parses |-> TRUE, header |-> LibpythonMacho]),
     File("python/build/lib/libfoo.a",
          [kind |-> "ar",
           members |-> <<[name |-> "b.o", extractable |-> TRUE,
                          data |-> [kind |-> "elf", parses |-> TRUE,
                                    elf |-> BannedObjectElf]],
                         [name |-> "a.o", extractable |-> TRUE, data |-> Text("")],
                         [name |-> "c.o", extractable |-> TRUE,
                          data |-> [kind |-> "elf", parses |-> TRUE,
                                    elf |-> CleanObjectElf]]>>]),
     File("python/build/lib/libbar.a",
          [kind |-> "ar",
           members |-> <<[name |-> "x.o", extractable |-> TRUE,
                          data |-> [kind |-> "elf", parses |-> FALSE]],
                         [name |-> "a.o", extractable |-> TRUE, data |-> Text("")]>>]),
     File("python/build/Modules/getpath.o",
          [kind |-> "elf", parses |-> TRUE, elf |-> UnreadableObjectElf]),
     File("python/install/bin/pip3", Text("#!/install/bin/python3")),
     File("python/install/lib/python3.9/os.py", Text("import sys")),
     File("python/install/python39.dll", [kind |-> "pe", parses |-> TRUE, pe |-> PythonDll])}

\* The sequences of at most n entries.
RECURSIVE EntryLists(_)
EntryLists(n) ==
    IF n = 0 THEN {<<>>}
    ELSE EntryLists(n - 1)
         \cup {Append(l, x) : l \in {m \in EntryLists(n - 1) : Len(m) = n - 1},
                              x \in EntryPalette}

\* A version 4 text stub of libSystem.
LibSystemStub(symbols) ==
    [parses |-> TRUE,
     records |-> <<[version |-> 4,
                    exports |-> <<[targets |-> <<"x86_64-macos", "arm64e-macos">>,
                                   symbols |-> symbols, objc_classes |-> <<>>,
                                   weak_symbols |-> <<>>]>>,
                    re_exports |-> <<>>]>>]

\* The SDKs of the index, by ascending version.
Sdks ==
    [sdks |->
        <<[version |-> Some("10.9"), path |-> "/sdks/MacOSX10.9.sdk", files |-> EmptyMap],
          [version |-> Some("11.0"), path |-> "/sdks/MacOSX11.0.sdk",
           files |-> [rel \in {"usr/lib/libSystem.B.tbd"} |-> LibSystemStub(<<"_malloc">>)]],
          [version |-> Some("13.1"), path |-> "/sdks/MacOSX13.1.sdk",
           files |-> [rel \in {"usr/lib/libSystem.B.tbd"} |->
                         LibSystemStub(<<"_malloc", "_getentropy">>)]]>>]

LinuxPath == "dist/cpython-3.9.18-x86_64-unknown-linux-gnu-pgo-20240107T0000.tar.zst"

DarwinPath == "dist/cpython-3.12.1-aarch64-apple-darwin-debug-20240107T0000.tar.zst"

MuslPath == "dist/cpython-3.9.18-x86_64-unknown-linux-musl-noopt-20240107T0000.tar.zst"

WindowsSharedPath == "dist/cpython-3.9.18-x86_64-pc-windows-msvc-shared-pgo-20240107T0000.tar.zst"

WindowsStaticPath == "dist/cpython-3.9.18-x86_64-pc-windows-msvc-static-noopt-20240107T0000.tar.zst"

Distribution(dist_path, macos_sdks, archive) ==
    [dist_path |-> dist_path, macos_sdks |-> macos_sdks, archive |-> archive]

\* Distributions by what they hold at python/install/bin/python and
\* python/install/bin/python3: two links of one name, a file and a link, a link
\* and a file, two files, one link on Windows, none on macOS, and two links
\* for python of which the last or the first has the name of that for python3.
LauncherDistributions ==
    {Distribution(LinuxPath, None,
                  Some(<<JsonEntry(LinuxJson),
                         Link("python/install/bin/python", "python3.9"),
                         Link("python/install/bin/python3", "python3.9"),
                         File("python/install/bin/python3.9", Text(""))>>)),
     Distribution(LinuxPath, None,
                  Some(<<JsonEntry(LinuxJson),
                         File("python/install/bin/python", Text("")),
                         Link("python/install/bin/python3", "python3.9")>>)),
     Distribution(LinuxPath, None,
                  Some(<<JsonEntry(LinuxJson),
                         Link("python/install/bin/python", "python3.9"),
                         File("python/install/bin/python3", Text(""))>>)),
     Distribution(LinuxPath, None,
                  Some(<<JsonEntry(LinuxJson),
                         File("python/install/bin/python", Text("")),
                         File("python/install/bin/python3", Text(""))>>)),
     Distribution(WindowsSharedPath, None,
                  Some(<<JsonEntry(WindowsSharedJson),
                         Link("python/install/bin/python3", "python.exe")>>)),
     Distribution(WindowsSharedPath, None,
                  Some(<<JsonEntry(WindowsSharedJson),
                         Link("python/install/bin/python", "python.exe"),
                         Link("python/install/bin/python3", "python.exe")>>)),
     Distribution(WindowsSharedPath, None,
                  Some(<<JsonEntry(WindowsSharedJson),
                         File("python/install/bin/python", Text(""))>>)),
     Distribution(LinuxPath, None,
                  Some(<<JsonEntry(LinuxJson),
                         Link("python/install/bin/python", "python3.9"),
                         Link("python/install/bin/python", "python3"),
                         Link("python/install/bin/python3", "python3")>>)),
     Distribution(LinuxPath, None,
                  Some(<<JsonEntry(LinuxJson),
                         Link("python/install/bin/python", "python3"),
                         Link("python/install/bin/python", "python3.9"),
                         Link("python/install/bin/python3", "python3")>>))}

\* The distributions: a Linux and a macOS distribution that begin with their
\* PYTHON.json and a Linux distribution that begins with another file, each
\* followed by every sequence of entries; and distributions that are cut short
\* by their name, their archive or their first entry.
Distributions ==
    {Distribution(LinuxPath, None, Some(<<JsonEntry(LinuxJson)>> \o rest)) :
        rest \in EntryLists(MaxEntries)}
    \cup {Distribution(DarwinPath, Some(Sdks), Some(<<JsonEntry(DarwinJson)>> \o rest)) :
            rest \in EntryLists(MaxEntries)}
    \cup {Distribution(LinuxPath, None, Some(<<File("python/README", Text("read me"))>> \o rest)) :
            rest \in EntryLists(MaxEntries)}
    \cup {Distribution("dist/cpython-3.9.18-riscv64-unknown-linux-gnu-pgo-20240107T0000.tar.zst",
                       None, Some(<<JsonEntry(LinuxJson)>>)),
          Distribution("dist/pypy-3.9.18-x86_64-unknown-linux-gnu-pgo-20240107T0000.tar.zst",
                       None, Some(<<JsonEntry(LinuxJson)>>)),
          Distribution(LinuxPath, None, None),
          Distribution(LinuxPath, None, Some(<<>>)),
          Distribution(LinuxPath, None,
                       Some(<<File("python/PYTHON.json", Text("{"))>>)),
          Distribution(LinuxPath, None,
                       Some(<<[JsonEntry(LinuxJson) EXCEPT !.readable = FALSE]>>)),
          Distribution(LinuxPath, None,
                       Some(<<JsonEntry(LinuxJson),
                              [File("python/LICENSE", Text("")) EXCEPT !.readable = FALSE]>>)),
          Distribution("dist-x86_64-apple-darwin-cross/cpython-3.9.18-x86_64-unknown-linux-gnu-pgo-20240107T0000.tar.zst",
                       None, Some(<<JsonEntry(LinuxJson)>>)),
          Distribution("dist-x86_64-unknown-linux-gnu-pgo/cpython-3.9.18.tar.zst",
                       None, Some(<<JsonEntry(LinuxJson)>>)),
          Distribution(MuslPath, None, Some(<<JsonEntry(MuslJson)>>)),
          Distribution(LinuxPath, None,
                       Some(<<JsonEntry(LinuxJson),
                              Link("python/install/bin/python", "python3.9"),
                              File("python/install/bin/python3.9", Text("")),
                              Link("python/install/bin/python3", "../bin/./python3.9"),
                              Link("python/install/lib/libpython3.9.so",
                                   "libpython3.9.so.1.0")>>)),
          Distribution(WindowsStaticPath, None,
                       Some(<<JsonEntry(WindowsStaticJson),
                              File("python/install/Lib/os.py", Text("import sys")),
                              File("python/build/lib/libffi.lib", Text(""))>>)),
          Distribution(MuslPath, None,
                       Some(<<JsonEntry(MuslJson),
                              File("python/install/lib/python3.9/os.py", Text("import sys"))>>)),
          Distribution(MuslPath, None,
                       Some(<<JsonEntry(MuslJson),
                              File("python/install/lib/libpython3.9.so.1.0",
                                   [kind |-> "elf", parses |-> TRUE, elf |-> LibpythonElf])>>)),
          Distribution(DarwinPath, None, Some(<<JsonEntry(DarwinJson)>>)),
          Distribution(LinuxPath, None,
                       Some(<<JsonEntry(LinuxVariantsJson),
                              File("python/" \o CryptSharedLib, Text(""))>>)),
          Distribution(MuslPath, None,
                       Some(<<JsonEntry(MuslVariantsJson),
                              File("python/" \o CryptSharedLib, Text(""))>>)),
          Distribution(WindowsSharedPath, None,
                       Some(<<JsonEntry(WindowsSharedJson),
                              File("python/install/DLLs/_ctypes.pyd", Text(""))>>)),
          Distribution(DarwinPath, Some(Sdks),
                       Some(<<JsonEntry(DarwinJson),
                              File("python/install/lib/libpython3.12.dylib",
                                   [kind |-> "macho", parses |-> TRUE,
                                    header |-> LibpythonMacho]),
                              File("python/build/lib/libz.a",
                                   [kind |-> "ar",
                                    members |-> <<[name |-> "zutil.o", extractable |-> TRUE,
                                                   data |-> [kind |-> "macho", parses |-> TRUE,
                                                             header |-> ZlibObjectMacho]]>>])>>)),
          Distribution(DarwinPath, Some(Sdks), Some(<<JsonEntry(LinuxJson)>>)),
          Distribution(DarwinPath, Some(Sdks),
                       Some(<<File("python/README", Text("read me"))>>))}
    \cup LauncherDistributions

DistInit ==
    /\ dist \in Distributions
    /\ pc = "open"
    /\ cursor = 0
    /\ locals = LocalsDefault
    /\ validated = <<>>
    /\ checks = <<>>
    /\ result = None

DistIdle ==
    /\ dist = Idle /\ pc = Idle /\ cursor = Idle /\ locals = Idle
    /\ validated = Idle /\ checks = Idle /\ result = Idle

DistNext ==
    \/ Open
    \/ FirstEntry
    \/ NextEntry
    \/ Launchers
    \/ SymlinkTargets
    \/ PythonPaths
    \/ RequiredDylibs
    \/ WindowsStaticPaths
    \/ ExportedSymbols
    \/ ExtensionModules
    \/ AppleSdks
    \/ ObjectPaths
    \/ Return

-----------------------------------------------------------------------------
(* SpecCommand: command_validate_distribution (validation.rs) is run once. *)
(*                                                                         *)
(* args holds the arguments: the flag run, macos_sdks_path as None or      *)
(* Some of what IndexedSdks::new makes of the path (None its Err, else the *)
(* index), and the paths, each with the archive behind it and with what    *)
(* verify_distribution_behavior comes to on it ("pass", "fail" for failing *)
(* interpreter tests, "err" for its Err).  reported lists, for each path   *)
(* the command reported on, the errors it printed, none standing for the   *)
(* line "OK".  exit is None until the command ends.                        *)

\* The most paths a command of this specification is given.
MaxPaths == 2

\* PYTHON.json of a static distribution without a flaw.
CleanJson ==
    [MuslJson EXCEPT
        !.build_info.core.objs = <<>>,
        !.python_paths = [k \in {"stdlib"} |-> "install/lib/python3.9"]]

\* The entries of a distribution without a flaw.
CleanArchive ==
    <<JsonEntry(CleanJson),
      Link("python/install/bin/python", "python3.9"),
      Link("python/install/bin/python3", "python3.9"),
      File("python/install/bin/python3.9", Text("")),
      File("python/install/lib/python3.9/os.py", Text("import sys"))>>

CommandPath(dist_path, archive, behavior) ==
    [dist_path |-> dist_path, archive |-> archive, behavior |-> behavior]

\* The paths: a distribution without a flaw, with passing tests, failing tests
\* and tests that cannot be run; a distribution with flaws; an archive that
\* cannot be opened; an archive whose first entry is not python/PYTHON.json.
CommandPaths ==
    {CommandPath(MuslPath, Some(CleanArchive), "pass"),
     CommandPath(MuslPath, Some(CleanArchive), "fail"),
     CommandPath(MuslPath, Some(CleanArchive), "err"),
     CommandPath(LinuxPath, Some(<<JsonEntry(LinuxJson)>>), "pass"),
     CommandPath(LinuxPath, None, "pass"),
     CommandPath(LinuxPath, Some(<<File("python/README", Text("read me"))>>), "pass")}

\* The sequences of one to n paths.
RECURSIVE PathLists(_)
PathLists(n) ==
    IF n = 0 THEN {<<>>}
    ELSE {Append(l, x) : l \in PathLists(n - 1), x \in CommandPaths}
         \cup (IF n > 1 THEN PathLists(n - 1) ELSE {})

CommandInputs ==
    [run : BOOLEAN,
     macos_sdks_path : {None, Some(None), Some(Some(Sdks))},
     path : PathLists(MaxPaths)]

CommandInit ==
    /\ args \in CommandInputs
    /\ cmdPc = "start"
    /\ taken = 0
    /\ success = TRUE
    /\ reported = <<>>
    /\ exit = None

CommandIdle ==
    /\ args = Idle /\ cmdPc = Idle /\ taken = Idle /\ success = Idle
    /\ reported = Idle /\ exit = Idle

\* Lines 2054-2062: the SDK index is loaded if a path to it is given.
CommandStart ==
    /\ cmdPc = "start"
    /\ IF IsSome(args.macos_sdks_path) /\ ~IsSome(Unwrap(args.macos_sdks_path))
       THEN cmdPc' = "done" /\ exit' = Some(Err)
       ELSE cmdPc' = "loop" /\ UNCHANGED exit
    /\ UNCHANGED <<args, taken, success, reported>>
    /\ UNCHANGED distVars
    /\ UNCHANGED notCmdVars

\* Lines 2064-2066: the next path is taken and validate_distribution is called
\* on it with the index.
CommandValidate ==
    /\ cmdPc = "loop"
    /\ taken < Len(args.path)
    /\ dist' = Distribution(args.path[taken + 1].dist_path,
                            IF IsSome(args.macos_sdks_path) THEN Unwrap(args.macos_sdks_path)
                            ELSE None,
                            args.path[taken + 1].archive)
    /\ pc' = "open"
    /\ cursor' = 0
    /\ locals' = LocalsDefault
    /\ validated' = <<>>
    /\ checks' = <<>>
    /\ result' = None
    /\ taken' = taken + 1
    /\ cmdPc' = "validating"
    /\ UNCHANGED <<args, success, reported, exit>>
    /\ UNCHANGED notCmdVars

\* A broken loop: the command ends at the first path that has errors.
CommandErrorsEndsCommand(errors) ==
    /\ reported' = Append(reported, errors)
    /\ success' = IF errors = <<>> THEN success ELSE FALSE
    /\ cmdPc' = IF errors = <<>> THEN "loop" ELSE "done"
    /\ exit' = IF errors = <<>> THEN exit ELSE Some(Err)

\* Lines 2068-2080: what the command does with the errors of a path.
CommandErrors(errors) ==
    /\ reported' = Append(reported, errors)
    /\ success' = IF errors = <<>> THEN success ELSE FALSE
    /\ cmdPc' = "loop"
    /\ UNCHANGED exit

\* Lines 2066-2080: validate_distribution is back.  Its failure is propagated,
\* and so is that of verify_distribution_behavior under --run; else the errors
\* of the path are printed.
CommandReport ==
    /\ cmdPc = "validating"
    /\ pc = "done"
    /\ IF Unwrap(result).status # "ok"
       THEN /\ exit' = Some([status |-> Unwrap(result).status])
            /\ cmdPc' = "done"
            /\ UNCHANGED <<success, reported>>
       ELSE IF args.run /\ args.path[taken].behavior = "err"
            THEN /\ exit' = Some(Err)
                 /\ cmdPc' = "done"
                 /\ UNCHANGED <<success, reported>>
       ELSE CommandErrors(Unwrap(result).errors
                             \o (IF args.run /\ args.path[taken].behavior = "fail"
                                 THEN <<"errors running interpreter tests">> ELSE <<>>))
    /\ UNCHANGED <<args, taken>>
    /\ UNCHANGED distVars
    /\ UNCHANGED notCmdVars

\* Lines 2083-2087: the paths are exhausted.
CommandEnd ==
    /\ cmdPc = "loop"
    /\ taken = Len(args.path)
    /\ exit' = Some(IF success THEN [status |-> "ok"] ELSE Err)
    /\ cmdPc' = "done"
    /\ UNCHANGED <<args, taken, success, reported>>
    /\ UNCHANGED distVars
    /\ UNCHANGED notCmdVars

CommandNext ==
    \/ CommandStart
    \/ CommandValidate
    \/ Open
    \/ FirstEntry
    \/ NextEntry
    \/ Launchers
    \/ SymlinkTargets
    \/ PythonPaths
    \/ RequiredDylibs
    \/ WindowsStaticPaths
    \/ ExportedSymbols
    \/ ExtensionModules
    \/ AppleSdks
    \/ ObjectPaths
    \/ Return
    \/ CommandReport
    \/ CommandEnd

-----------------------------------------------------------------------------
(* SpecPair: validate_distribution is called on one distribution and, once *)
(* it is back, on a second one.  pair is [kind, calls]: under "sdk" the    *)
(* two calls are on the same path and archive, with an SDK index and       *)
(* without one; under "order" they are on the same path, with the same     *)
(* index, and on archives that differ in the order of two neighbours       *)
(* among the entries after the first.  returned lists what the calls       *)
(* returned.                                                               *)

\* An SDK index with a text stub that the parser rejects.
SdksUnparsed ==
    [sdks |->
        <<[version |-> Some("11.0"), path |-> "/sdks/MacOSX11.0.sdk",
           files |-> [rel \in {"usr/lib/libSystem.B.tbd"} |->
                         [parses |-> FALSE, records |-> <<>>]]]>>]

\* The archives of the pairs "sdk", each with the path it is behind.
SdkPairArchives ==
    {<<DarwinPath, <<JsonEntry(DarwinJson)>> \o rest>> :
        rest \in {<<>>,
                  <<File("python/install/lib/libpython3.12.dylib",
                         [kind |-> "macho", parses |-> TRUE, header |-> LibpythonMacho])>>,
                  <<File("python/install/lib/libpython3.12.dylib",
                         [kind |-> "macho", parses |-> TRUE, header |-> LibpythonMacho]),
                    File("python/install/lib/python3.12/os.py", Text("import sys"))>>,
                  <<File("python/install/bin/python3.9", [kind |-> "elf", parses |-> FALSE])>>}}
    \cup {<<DarwinPath, <<JsonEntry([DarwinJson EXCEPT
                                        !.apple_sdk_deployment_target = None])>>>>,
          <<DarwinPath, <<JsonEntry([DarwinJson EXCEPT
                                        !.apple_sdk_deployment_target = Some("11")])>>>>,
          <<DarwinPath, <<JsonEntry([DarwinJson EXCEPT
                                        !.build_info.core.objs = <<"build/Objects/abstract.o">>]),
                          File("python/install/lib/libpython3.12.dylib",
                               [kind |-> "macho", parses |-> TRUE,
                                header |-> LibpythonMacho])>>>>,
          <<DarwinPath, <<File("python/README", Text("read me"))>>>>,
          <<LinuxPath, <<JsonEntry(LinuxJson),
                         File("python/install/lib/libpython3.9.so.1.0",
                              [kind |-> "elf", parses |-> TRUE, elf |-> LibpythonElf])>>>>,
          <<MuslPath, CleanArchive>>}

SdkPairs ==
    {[kind |-> "sdk",
      calls |-> <<Distribution(a[1], Some(sdks), Some(a[2])),
                  Distribution(a[1], None, Some(a[2]))>>] :
        a \in SdkPairArchives, sdks \in {Sdks, SdksUnparsed}}

\* The entries the archives of the pairs "order" hold after the first.
OrderPalette ==
    {Link("python/install/bin/python", "python3.9"),
     Link("python/install/bin/python", "python3"),
     Link("python/install/bin/python3", "python3.9"),
     File("python/install/bin/pip3", Text("#!/install/bin/python3")),
     File("python/build/lib/libfoo.a",
          [kind |-> "ar",
           members |-> <<[name |-> "b.o", extractable |-> TRUE,
                          data |-> [kind |-> "elf", parses |-> TRUE,
                                    elf |-> BannedObjectElf]]>>])}

\* The sequences of exactly n of them.
RECURSIVE OrderLists(_)
OrderLists(n) ==
    IF n = 0 THEN {<<>>}
    ELSE {Append(l, x) : l \in OrderLists(n - 1), x \in OrderPalette}

\* The sequence with its entries i and i + 1 exchanged.
Exchanged(l, i) ==
    [k \in DOMAIN l |-> IF k = i THEN l[i + 1] ELSE IF k = i + 1 THEN l[i] ELSE l[k]]

\* Entries after which an object file follows that fails to parse.
OrderFailingLists ==
    {<<x, File("python/install/bin/python3.9", [kind |-> "elf", parses |-> FALSE])>> :
        x \in OrderPalette}

\* The pairs "order": MaxEntries + 1 entries after PYTHON.json, or an entry and
\* an object file that fails to parse, and the same with two neighbours
\* exchanged.
OrderPairs ==
    {[kind |-> "order",
      calls |-> <<Distribution(LinuxPath, None, Some(<<JsonEntry(LinuxJson)>> \o l)),
                  Distribution(LinuxPath, None,
                               Some(<<JsonEntry(LinuxJson)>> \o Exchanged(l, i)))>>] :
        l \in OrderLists(MaxEntries + 1), i \in 1..MaxEntries}
    \cup {[kind |-> "order",
           calls |-> <<Distribution(LinuxPath, None, Some(<<JsonEntry(LinuxJson)>> \o l)),
                       Distribution(LinuxPath, None,
                                    Some(<<JsonEntry(LinuxJson)>> \o Exchanged(l, 1)))>>] :
             l \in OrderFailingLists}

PairInit ==
    /\ pair \in SdkPairs \cup OrderPairs
    /\ returned = <<>>
    /\ dist = pair.calls[1]
    /\ pc = "open"
    /\ cursor = 0
    /\ locals = LocalsDefault
    /\ validated = <<>>
    /\ checks = <<>>
    /\ result = None

PairIdle == pair = Idle /\ returned = Idle

\* validate_distribution is back: what it returned is kept, and after the
\* first call the second is made.
PairReturn ==
    /\ pc = "done"
    /\ returned' = Append(returned, Unwrap(result))
    /\ IF returned = <<>>
       THEN /\ dist' = pair.calls[2]
            /\ pc' = "open"
            /\ cursor' = 0
            /\ locals' = LocalsDefault
            /\ validated' = <<>>
            /\ checks' = <<>>
            /\ result' = None
       ELSE /\ pc' = "returned"
            /\ UNCHANGED <<dist, cursor, locals, validated, checks, result>>
    /\ UNCHANGED pair
    /\ UNCHANGED notPairVars

PairNext ==
    \/ Open
    \/ FirstEntry
    \/ NextEntry
    \/ Launchers
    \/ SymlinkTargets
    \/ PythonPaths
    \/ RequiredDylibs
    \/ WindowsStaticPaths
    \/ ExportedSymbols
    \/ ExtensionModules
    \/ AppleSdks
    \/ ObjectPaths
    \/ Return
    \/ PairReturn

-----------------------------------------------------------------------------
(* What validate_distribution does with an archive that does not begin     *)
(* with its metadata, with an object file that fails to parse, and with    *)
(* the violations it records.                                              *)

\* The entries of the archive of the distribution.
Entries == Unwrap(dist.archive)

\* The archive has a first entry, and it is not python/PYTHON.json.
FirstEntryNotJson ==
    /\ IsSome(dist.archive)
    /\ Entries # <<>>
    /\ Entries[1].path # "python/PYTHON.json"

\* C1: when the first entry of the archive is not python/PYTHON.json, the call
\* ends without a crash and with the problem reported (it returns the list
\* with the error about the first entry in it, or it returns a failure), and
\* validate_possible_object_file was called on no entry.
C1_FirstEntryNotJsonReported ==
    (pc = "done" /\ cursor >= 1 /\ FirstEntryNotJson) =>
        /\ Unwrap(result).status \in {"ok", "err"}
        /\ Unwrap(result).status = "ok" =>
              ("1st archive entry should be for python/PYTHON.json; got " \o Entries[1].path)
                 \in Range(Unwrap(result).errors)
        /\ validated = <<>>

\* The bytes are classified as ELF, Mach-O or PE and then fail to parse.
FailsToParse(data) == data.kind \in {"elf", "macho", "pe"} /\ ~data.parses

\* The bytes are an ELF file for a triple validate_elf handles, and its section
\* table cannot be read.
FailsToValidate(data) ==
    /\ data.kind = "elf"
    /\ data.parses
    /\ data.elf.sections_corrupt
    /\ IsSome(ElfWantedCpuType(locals.triple))
    /\ IsSome(GLIBC_MAX_VERSION_BY_TRIPLE(locals.triple))

\* The loop is about to take an entry that fails to parse or to validate, or a
\* static library with a member that does, the members before it in the order
\* of their names not being object files.
NextEntryFails ==
    /\ pc = "entries"
    /\ IsSome(locals.json)
    /\ cursor < Len(Entries)
    /\ Entries[cursor + 1].readable
    /\ \/ FailsToParse(Entries[cursor + 1].data)
       \/ FailsToValidate(Entries[cursor + 1].data)
       \/ /\ Entries[cursor + 1].data.kind = "ar"
          /\ \E m \in Range(Entries[cursor + 1].data.members) :
                /\ m.extractable
                /\ FailsToParse(m.data) \/ FailsToValidate(m.data)
                /\ \A o \in Range(Entries[cursor + 1].data.members) :
                      StrLess(o.name, m.name) => o.extractable /\ o.data.kind = "text"

\* C2, as the claim states it: the failure of such an entry is recorded as an
\* error of the entry, and the loop goes on to the next entry.
C2_ParseFailureRecordedLocally ==
    [][NextEntryFails =>
          /\ result' = None
          /\ cursor' = cursor + 1
          /\ Len(locals'.context.errors) > Len(locals.context.errors)]_vars

\* C2, amended: the failure of such an entry is propagated.  The call ends at
\* that entry with Err; and a call that ends before the last entry of the
\* archive has run none of the checks that follow the loop and returns no list.
C2_ParseFailurePropagates ==
    /\ [][NextEntryFails =>
             /\ pc' = "done"
             /\ result' = Some(Err)
             /\ cursor' = cursor
             /\ checks' = <<>>]_vars
    /\ [](pc = "done" /\ IsSome(dist.archive) /\ cursor < Len(Entries)
             => checks = <<>> /\ Unwrap(result).status # "ok")

\* The call ended with Err at an entry that fails to parse, after it had recorded
\* errors and before it had taken the last entry of the archive.
C2_Witness ==
    /\ pc = "done"
    /\ result = Some(Err)
    /\ cursor >= 1
    /\ cursor + 1 < Len(Entries)
    /\ FailsToParse(Entries[cursor + 1].data)
    /\ locals.context.errors # <<>>
    /\ checks = <<>>

\* a is a prefix of b.
IsPrefix(a, b) == Len(a) <= Len(b) /\ SubSeq(b, 1, Len(a)) = a

\* validate_elf ends with Ok on the file for the triple.
SoundElf(elf, triple) ==
    /\ IsSome(ElfWantedCpuType(triple))
    /\ IsSome(GLIBC_MAX_VERSION_BY_TRIPLE(triple))
    /\ ~elf.sections_corrupt
    /\ \A section \in Range(elf.sections) : ~section.corrupt

\* validate_macho is reached and ends with Ok on the file: PYTHON.json names
\* the deployment target and the SDK version, the load commands can be read,
\* and the library ordinals of the undefined symbols name a library.
SoundMacho(header, json, triple) ==
    /\ IsSome(json.apple_sdk_deployment_target)
    /\ IsSome(json.apple_sdk_version)
    /\ IsSome(SemverParse(Unwrap(json.apple_sdk_deployment_target) \o ".0"))
    /\ IsSome(SemverParse(Unwrap(json.apple_sdk_version) \o ".0"))
    /\ ~header.corrupt
    /\ IsSome(MachoWantedCpuType(triple))
    /\ \A command \in Range(header.commands) :
          /\ command.cmd # "Corrupt"
          /\ command.cmd = "Symtab" =>
                \A symbol \in Range(command.symbols) :
                   \/ ~symbol.n_undf
                   \/ symbol.library_ordinal = SELF_LIBRARY_ORDINAL
                   \/ symbol.library_ordinal >= MAX_LIBRARY_ORDINAL
                   \/ symbol.library_ordinal
                         <= Len(SelectSeq(header.commands, LAMBDA c : c.cmd = "Dylib"))

\* validate_possible_object_file ends with Ok on the bytes.
SoundData(path, data, json, triple) ==
    CASE data.kind = "elf" -> data.parses /\ SoundElf(data.elf, triple)
      [] data.kind = "macho" -> data.parses /\ SoundMacho(data.header, json, triple)
      [] data.kind = "pe" -> data.parses /\ (Contains(path, "wininst-") \/ ~data.pe.corrupt)
      [] OTHER -> TRUE

\* The loop body ends with neither a failure nor a panic on the entry.
SoundEntry(entry, json, triple) ==
    /\ entry.readable
    /\ SoundData(entry.path, entry.data, json, triple)
    /\ entry.data.kind = "ar" =>
          \A m \in Range(entry.data.members) :
             m.extractable /\ SoundData(entry.path, m.data, json, triple)

\* The text stubs of the SDKs can be read, and they are version 4 stubs, which
\* refer to no other file.
SoundSdks(sdks) ==
    \A sdk \in Range(sdks) :
       \A rel \in DOMAIN sdk.files :
          /\ sdk.files[rel].parses
          /\ \A record \in Range(sdk.files[rel].records) : record.version = 4

\* validate_json ends with Ok on the metadata, and the analysis against the
\* SDKs is not cut short.
SoundJson(json, triple, dist_filename) ==
    /\ IsSome(PLATFORM_TAG_BY_TRIPLE(triple))
    /\ Contains(dist_filename, "-debug-") => "abiflags" \in DOMAIN json.python_config_vars
    /\ json.python_major_minor_version \in PythonVersions
    /\ (Contains(triple, "-apple-darwin") /\ IsSome(dist.macos_sdks)
           /\ IsSome(json.apple_sdk_deployment_target)) =>
          /\ IsSome(SemverParse(Unwrap(json.apple_sdk_deployment_target) \o ".0"))
          /\ SoundSdks(Unwrap(dist.macos_sdks).sdks)

\* The distribution has no structural defect: its name tells the triple and the
\* Python version, its archive can be opened and read, its first entry is a
\* PYTHON.json that parses, and none of its object files fails to parse or
\* ends a validator with a failure or a panic.
NoFatal ==
    /\ IsSome(TripleOf(dist.dist_path))
    /\ IsSome(PythonMajorMinorOf(FileName(dist.dist_path)))
    /\ IsSome(dist.archive)
    /\ Entries # <<>>
    /\ Entries[1].readable
    /\ Entries[1].path = "python/PYTHON.json"
    /\ Entries[1].data.kind = "json"
    /\ SoundJson(Entries[1].data.json, Unwrap(TripleOf(dist.dist_path)),
                 FileName(dist.dist_path))
    /\ \A i \in 2..Len(Entries) :
          SoundEntry(Entries[i], Entries[1].data.json, Unwrap(TripleOf(dist.dist_path)))

\* C3, as the claim states it: once a violation is recorded in a call that read
\* its PYTHON.json and can read every entry of the archive, every entry is
\* validated, every check after the loop is run, and the list that is returned
\* holds every error that was recorded.
C3_EveryViolationReturned ==
    (/\ pc = "done"
     /\ IsSome(locals.json)
     /\ \A entry \in Range(Entries) : entry.readable
     /\ locals.context.errors # <<>>) =>
        /\ Unwrap(result).status = "ok"
        /\ cursor = Len(Entries)
        /\ checks = AllChecks
        /\ Unwrap(result).errors = locals.context.errors

\* C3, amended: the list of errors only grows by appending; on a distribution
\* without a structural defect the call returns a list, whatever violations it
\* records; and a call that returns a list has validated every entry, has run
\* every check after the loop, and returns every error it recorded, in the
\* order in which it recorded them.
C3_ViolationsAccumulate ==
    /\ [][IsPrefix(locals.context.errors, locals'.context.errors)]_vars
    /\ [](pc = "done" /\ NoFatal => Unwrap(result).status = "ok")
    /\ [](pc = "done" /\ Unwrap(result).status = "ok" =>
             /\ cursor = Len(Entries)
             /\ \A i \in 2..Len(Entries) : Entries[i].path \in Range(validated)
             /\ checks = AllChecks
             /\ Unwrap(result).errors = locals.context.errors)

\* A list was returned for an archive of three entries: it has an error about
\* the second entry, after it an error about the third, and after that an
\* error of a check that follows the loop.
C3_Witness ==
    /\ pc = "done"
    /\ NoFatal
    /\ Unwrap(result).status = "ok"
    /\ Len(Entries) = 3
    /\ \E i, j, k \in DOMAIN Unwrap(result).errors :
          /\ i < j
          /\ j < k
          /\ Contains(Unwrap(result).errors[i], Entries[2].path)
          /\ Contains(Unwrap(result).errors[j], Entries[3].path)
          /\ Unwrap(result).errors[k] = "libpython doesn't export Py_CompileString"

-----------------------------------------------------------------------------
(* The members of a static library.                                        *)

\* The errors about banned symbols, in the order of the list.
BannedSymbolErrors(errors) ==
    SelectSeq(errors, LAMBDA e : Contains(e, " defines banned ELF symbol "))

\* The undefined symbols of an ELF file that are banned, section by section.
BannedReferences(elf) ==
    Flatten([s \in DOMAIN elf.sections |->
                IF elf.sections[s].sh_type \in {"SHT_DYNSYM", "SHT_SYMTAB"}
                THEN LET banned == SelectSeq(elf.sections[s].symbols,
                                             LAMBDA symbol : /\ symbol.undefined
                                                             /\ symbol.name \in ELF_BANNED_SYMBOLS)
                     IN [i \in DOMAIN banned |-> banned[i].name]
                ELSE <<>>])

\* The errors about banned symbols that are due for data met under a path.
BannedErrorsOf(path, data) ==
    IF data.kind = "elf" /\ data.parses
    THEN [i \in DOMAIN BannedReferences(data.elf) |->
             path \o " defines banned ELF symbol " \o BannedReferences(data.elf)[i]]
    ELSE <<>>

\* The same for an entry: for its own data and, if it is a static library, for
\* each of its members by name, under <path of the library>:<name of the member>.
BannedErrorsOfEntry(entry) ==
    BannedErrorsOf(entry.path, entry.data)
    \o (IF entry.data.kind = "ar"
        THEN Flatten([m \in DOMAIN SortMembers(entry.data.members) |->
                         BannedErrorsOf(entry.path \o ":" \o SortMembers(entry.data.members)[m].name,
                                        SortMembers(entry.data.members)[m].data)])
        ELSE <<>>)

\* C11: when validate_distribution returns its list, the errors about banned
\* symbols in it are those of the entries after the first, in their order: each
\* member of a static library is validated on its own as
\* <path of the library>:<name of the member>, and a banned symbol of a member
\* is reported once, under that path.
C11_MembersValidatedUnderTheirPath ==
    pc = "done" /\ Unwrap(result).status = "ok"
        => BannedSymbolErrors(Unwrap(result).errors)
              = Flatten([k \in 1..(Len(Entries) - 1) |-> BannedErrorsOfEntry(Entries[k + 1])])

\* A static library with two ELF members, one of which refers to a banned
\* symbol, was validated: the one error about a banned symbol names that member.
C11_Witness ==
    /\ pc = "done"
    /\ Unwrap(result).status = "ok"
    /\ \E k \in 2..Len(Entries) :
          /\ Entries[k].data.kind = "ar"
          /\ \E a, b \in DOMAIN Entries[k].data.members :
                /\ a # b
                /\ Entries[k].data.members[a].data.kind = "elf"
                /\ Entries[k].data.members[b].data.kind = "elf"
                /\ Entries[k].data.members[a].data.parses
                /\ Entries[k].data.members[b].data.parses
                /\ BannedReferences(Entries[k].data.members[a].data.elf) # <<>>
                /\ BannedReferences(Entries[k].data.members[b].data.elf) = <<>>
                /\ BannedSymbolErrors(Unwrap(result).errors)
                      = <<Entries[k].path \o ":" \o Entries[k].data.members[a].name
                            \o " defines banned ELF symbol pthread_yield">>
                /\ MemberPath(Entries[k].path, Entries[k].data.members[a].name)
                      \in Range(validated)
                /\ MemberPath(Entries[k].path, Entries[k].data.members[b].name)
                      \in Range(validated)

-----------------------------------------------------------------------------
(* The symbols libpython exports.                                          *)

-----------------------------------------------------------------------------
(* The command over several archives.                                      *)

\* The SDK index was asked for and could not be loaded.
IndexFailed == IsSome(args.macos_sdks_path) /\ ~IsSome(Unwrap(args.macos_sdks_path))

\* The command ended with a failure.
CommandFailed == cmdPc = "done" /\ Unwrap(exit).status # "ok"

\* The validation of the path taken last did not come to a list of errors:
\* validate_distribution failed or panicked, or verify_distribution_behavior
\* failed.
LastPathIncomplete ==
    /\ taken = Len(reported) + 1
    /\ pc = "done"
    /\ \/ Unwrap(result).status # "ok"
       \/ args.run /\ args.path[taken].behavior = "err"

\* C14 as the specification has it: the command ends with every path
\* validated, and with a failure exactly when some path had an error.
C14_EveryArchiveValidated ==
    cmdPc = "done" /\ ~IndexFailed
        => /\ Len(reported) = Len(args.path)
           /\ Unwrap(exit).status # "ok" <=> \E i \in DOMAIN reported : reported[i] # <<>>

\* C14: the command takes the paths in their order, one at a time, and the one
\* being validated is the one taken last.  It stops before the last path only
\* where the index cannot be loaded or where the validation of a path does not
\* come to a list of errors, and then it fails; errors of a path never stop it.
\* When every path was reported on, it fails exactly when some path had an
\* error.
C14_ArchivesValidatedInOrder ==
    /\ cmdPc \in {"loop", "validating", "done"}
          => /\ taken \in 0..Len(args.path)
             /\ Len(reported) \in {taken - 1, taken}
    /\ cmdPc = "validating"
          => /\ dist.dist_path = args.path[taken].dist_path
             /\ dist.archive = args.path[taken].archive
             /\ Len(reported) = taken - 1
    /\ cmdPc = "done" /\ Len(reported) = Len(args.path) /\ ~IndexFailed
          => Unwrap(exit).status # "ok" <=> \E i \in DOMAIN reported : reported[i] # <<>>
    /\ cmdPc = "done" /\ Len(reported) < Len(args.path)
          => /\ CommandFailed
             /\ IndexFailed \/ LastPathIncomplete

\* The command was given two paths, found errors in the first, went on to
\* validate the second, and ended with a failure.
C14_Witness ==
    /\ cmdPc = "done"
    /\ Len(args.path) = 2
    /\ Len(reported) = 2
    /\ reported[1] # <<>>
    /\ reported[2] = <<>>
    /\ Unwrap(exit) = Err

-----------------------------------------------------------------------------
(* The SDK index as an input of validate_distribution.                     *)

\* Both calls of a pair "sdk" are back.
SdkPairReturned == pc = "returned" /\ pair.kind = "sdk"

\* An error that IndexedSdks::validate_context pushes.
FromValidateContext(e) ==
    \/ Contains(e, " which doesn't exist in SDK ")
    \/ Contains(e, " does not exist in SDK ")
    \/ StartsWith(e, "unknown target triple for Mach-O symbol analysis: ")
    \/ e = "failed to resolve Apple SDKs to test against (this is likely a bug)"

\* An error that lines 1988-2003 push, themselves or through validate_context.
FromSdkAnalysis(e) ==
    \/ FromValidateContext(e)
    \/ e = "cannot perform Apple targeting analysis due to missing SDK advertisement"

\* C15 as the specification has it: the list returned without an index is the
\* list returned with one, less the errors of validate_context.
C15_ListsDifferByValidateContext ==
    SdkPairReturned /\ returned[1].status = "ok"
        => /\ returned[2].status = "ok"
           /\ returned[2].errors
                 = SelectSeq(returned[1].errors, LAMBDA e : ~FromValidateContext(e))

\* C15: when the call with an index returns a list, the call without one
\* returns the same list less the errors of the analysis against the SDKs,
\* which are those of validate_context and the one about a missing SDK
\* advertisement; and when the call without an index fails, the call with one
\* fails in the same way.
C15_ListsDifferBySdkAnalysis ==
    /\ SdkPairReturned /\ returned[1].status = "ok"
          => /\ returned[2].status = "ok"
             /\ returned[2].errors
                   = SelectSeq(returned[1].errors, LAMBDA e : ~FromSdkAnalysis(e))
             /\ \A e \in Range(returned[2].errors) : ~FromSdkAnalysis(e)
    /\ SdkPairReturned /\ returned[2].status # "ok" => returned[1] = returned[2]

\* The two calls returned lists that differ: the one with the index has errors
\* of validate_context, and errors of other checks in front of them and behind.
C15_Witness ==
    /\ SdkPairReturned
    /\ returned[1].status = "ok"
    /\ returned[2].status = "ok"
    /\ returned[2].errors # <<>>
    /\ \E i, j, k \in DOMAIN returned[1].errors :
          /\ i < j /\ j < k
          /\ ~FromSdkAnalysis(returned[1].errors[i])
          /\ FromValidateContext(returned[1].errors[j])
          /\ ~FromSdkAnalysis(returned[1].errors[k])

-----------------------------------------------------------------------------
(* The triple and the Python version of a distribution.                    *)

\* The recognized triples that the file name of the distribution holds between
\* dashes.
TriplesOfFilename ==
    {t \in Range(RECOGNIZED_TRIPLES) :
        Contains(FileName(dist.dist_path), "-" \o t \o "-")}

\* C16 as the specification has it: the file name holds at most one recognized
\* triple between dashes; once the archive is opened the triple is that one and
\* the version is that of the prefix of the file name; and a file name without
\* a recognized triple or without a supported prefix ends the call with Err
\* before any entry is read and any check is run.
C16_TripleFromFilename ==
    /\ Cardinality(TriplesOfFilename) <= 1
    /\ pc \notin {"open", "done", Idle}
          => /\ locals.triple \in TriplesOfFilename
             /\ StartsWith(FileName(dist.dist_path),
                           "cpython-" \o locals.python_major_minor \o ".")
    /\ /\ pc \notin {"open", Idle}
       /\ \/ TriplesOfFilename = {}
          \/ ~IsSome(PythonMajorMinorOf(FileName(dist.dist_path)))
       => /\ pc = "done"
          /\ result = Some(Err)
          /\ cursor = 0
          /\ validated = <<>>
          /\ checks = <<>>

-----------------------------------------------------------------------------
(* The static libraries of a static Windows distribution.                  *)

\* The distribution is a Windows build with a static CRT.
WindowsStaticBuild ==
    /\ Contains(dist.dist_path, "-windows-")
    /\ IsSome(locals.json)
    /\ "static" \in Range(Unwrap(locals.json).crt_features)

\* C17 as the specification has it: the list returned for a static Windows
\* build has "required path ... not seen" once for each of the five static
\* libraries that is not a path of the archive, and not for the others.
C17_WindowsStaticPathsReported ==
    pc = "done" /\ Unwrap(result).status = "ok" /\ WindowsStaticBuild
        => \A path \in WANTED_WINDOWS_STATIC_PATHS :
              Count(Unwrap(result).errors, "required path " \o path \o " not seen")
                  = IF path \in locals.seen_paths THEN 0 ELSE 1

-----------------------------------------------------------------------------
(* The context after the loop over the entries.                            *)

\* The loop over the entries of the archive has ended.
LoopEnded ==
    \/ pc = "entries" /\ cursor = Len(Entries)
    \/ pc \in {"symlink_targets", "python_paths", "required_dylibs", "windows_static_paths",
               "exported_symbols", "extension_modules", "apple_sdks", "object_paths",
               "return"}

\* C18 as the specification has it: after the loop no step changes the context.
C18_ContextReadOnly ==
    [][LoopEnded => locals'.context = locals.context]_vars

\* C18: after the loop no step changes seen_dylibs, libpython_exported_symbols
\* or the tables of the strongly and weakly undefined symbols of the context;
\* the checks and the analysis against the SDKs only append to its errors.
C18_ContextOnlyGainsErrors ==
    [][LoopEnded
          => /\ locals'.context.seen_dylibs = locals.context.seen_dylibs
             /\ locals'.context.libpython_exported_symbols
                   = locals.context.libpython_exported_symbols
             /\ locals'.context.macho_undefined_symbols_strong
                   = locals.context.macho_undefined_symbols_strong
             /\ locals'.context.macho_undefined_symbols_weak
                   = locals.context.macho_undefined_symbols_weak
             /\ IsPrefix(locals.context.errors, locals'.context.errors)]_vars

\* The checks and validate_context have run on a context that holds a library,
\* an exported symbol and an undefined symbol, and have added errors to it.
C18_Witness ==
    /\ pc = "done"
    /\ Unwrap(result).status = "ok"
    /\ IsSome(dist.macos_sdks)
    /\ Len(checks) = Len(AllChecks)
    /\ locals.context.seen_dylibs # {}
    /\ locals.context.libpython_exported_symbols # {}
    /\ locals.context.macho_undefined_symbols_strong # RequiredSymbolsDefault
    /\ \E e \in Range(locals.context.errors) : FromValidateContext(e)
    /\ \E e \in Range(locals.context.errors) : StartsWith(e, "required library dependency ")

-----------------------------------------------------------------------------
(* The order of the entries of the archive.                                *)

\* Both calls of a pair "order" are back.
OrderPairReturned == pc = "returned" /\ pair.kind = "order"

\* The link names of the links at a path in the archive of the first call.
LinkNamesAt(path) ==
    {Unwrap(e.link_name) :
        e \in {x \in Range(Unwrap(pair.calls[1].archive)) :
                  x.path = path /\ IsSome(x.link_name)}}

\* The archive does not hold two links of different names for python, nor for
\* python3.
LaunchersUnambiguous ==
    /\ Cardinality(LinkNamesAt("python/install/bin/python")) <= 1
    /\ Cardinality(LinkNamesAt("python/install/bin/python3")) <= 1

\* C19 as the specification has it: the two orders come to lists with the
\* same errors the same number of times, or to no list in either.
C19_OrderIndependent ==
    OrderPairReturned
        => /\ returned[1].status = "ok" <=> returned[2].status = "ok"
           /\ returned[1].status = "ok"
                 => SameEntries(returned[1].errors, returned[2].errors)

\* C19: the two orders come to a list or both do not; and the lists have the
\* same errors the same number of times if the archive does not hold two links
\* of different names for python/install/bin/python or for
\* python/install/bin/python3.
C19_OrderIndependentButLaunchers ==
    OrderPairReturned
        => /\ returned[1].status = "ok" <=> returned[2].status = "ok"
           /\ returned[1].status = "ok" /\ LaunchersUnambiguous
                 => SameEntries(returned[1].errors, returned[2].errors)

\* Two orders of entries with errors of their own came to lists that are not
\* the same sequence and hold the same errors.
C19_Witness ==
    /\ OrderPairReturned
    /\ LaunchersUnambiguous
    /\ returned[1].status = "ok"
    /\ returned[1].errors # returned[2].errors
    /\ SameEntries(returned[1].errors, returned[2].errors)

-----------------------------------------------------------------------------
(* The targets of the links of the archive.                                *)

\* The entries after the first that are links.
LinkEntries == {k \in 2..Len(Entries) : IsSome(Entries[k].link_name)}

\* The target of a link: the name of the link joined to the directory of the
\* entry, normalized.
LinkTarget(k) == Normalize(PathJoin(Parent(Entries[k].path), Unwrap(Entries[k].link_name)))

\* Where the entries of a path are in the archive.
EntriesAt(path) == {j \in 1..Len(Entries) : Entries[j].path = path}

SymlinkTargetError(target) ==
    "symlink target " \o target \o " referenced in archive but not found"

\* C20: when validate_distribution returns its list, the target of a link
\* among the entries after the first is reported as not found exactly when no
\* entry of the archive has it as its path, wherever in the archive such an
\* entry is; and no other target is reported.
C20_SymlinkTargetsResolved ==
    pc = "done" /\ Unwrap(result).status = "ok"
        => /\ \A k \in LinkEntries :
                 SymlinkTargetError(LinkTarget(k)) \in Range(Unwrap(result).errors)
                     <=> EntriesAt(LinkTarget(k)) = {}
           /\ \A e \in Range(Unwrap(result).errors) :
                 StartsWith(e, "symlink target ")
                     => \E k \in LinkEntries : e = SymlinkTargetError(LinkTarget(k))

\* A list was returned for an archive with a link whose target comes after it,
\* a link whose target comes before it, and a link whose target is missing:
\* only the last is reported.
C20_Witness ==
    /\ pc = "done"
    /\ Unwrap(result).status = "ok"
    /\ \E a, b, c \in LinkEntries :
          /\ \E j \in EntriesAt(LinkTarget(a)) : j > a
          /\ \E j \in EntriesAt(LinkTarget(b)) : j < b
          /\ Unwrap(Entries[b].link_name) # FileName(LinkTarget(b))
          /\ EntriesAt(LinkTarget(c)) = {}
          /\ SymlinkTargetError(LinkTarget(a)) \notin Range(Unwrap(result).errors)
          /\ SymlinkTargetError(LinkTarget(b)) \notin Range(Unwrap(result).errors)
          /\ SymlinkTargetError(LinkTarget(c)) \in Range(Unwrap(result).errors)

-----------------------------------------------------------------------------
(* The prefixes of python_paths.                                           *)

\* The values of python_paths in the metadata of the first entry.
PythonPathValues == Range(Entries[1].data.json.python_paths)

\* The entries after the first whose path starts with python/v.
EntriesUnder(v) == {k \in 2..Len(Entries) : PathStartsWith(Entries[k].path, "python/" \o v)}

PathPrefixError(v) ==
    "path prefix python/" \o v \o " seen in python_paths does not appear in archive"

\* C21: when validate_distribution returns its list, the prefix python/v of a
\* value v of python_paths is in the list once when no entry after the first
\* has a path that starts with it and not at all otherwise; no other prefix
\* is reported.
C21_PathPrefixesReported ==
    pc = "done" /\ Unwrap(result).status = "ok"
        => /\ \A v \in PythonPathValues :
                 Count(Unwrap(result).errors, PathPrefixError(v))
                     = IF EntriesUnder(v) = {} THEN 1 ELSE 0
           /\ \A e \in Range(Unwrap(result).errors) :
                 StartsWith(e, "path prefix ")
                     => \E v \in PythonPathValues : e = PathPrefixError(v)

\* A list was returned for an archive with an entry under one prefix of
\* python_paths and none under another: only the other is reported.
C21_Witness ==
    /\ pc = "done"
    /\ Unwrap(result).status = "ok"
    /\ \E v, w \in PythonPathValues :
          /\ EntriesUnder(v) # {}
          /\ EntriesUnder(w) = {}
          /\ PathPrefixError(v) \notin Range(Unwrap(result).errors)
          /\ PathPrefixError(w) \in Range(Unwrap(result).errors)

-----------------------------------------------------------------------------
(* The libraries the Mach-O files of the archive load.                     *)

\* What validate_possible_object_file is given by the loop over the entries
\* after the first: the data of the entries and of the members of the static
\* libraries among them.
ObjectDatas ==
    {Entries[k].data : k \in 2..Len(Entries)}
        \cup UNION {{Entries[k].data.members[i].data : i \in DOMAIN Entries[k].data.members} :
                       k \in {j \in 2..Len(Entries) : Entries[j].data.kind = "ar"}}

\* The names in the Dylib load commands of the Mach-O files validated.
LoadedDylibs ==
    UNION {{d.header.commands[i].name :
                i \in {j \in DOMAIN d.header.commands : d.header.commands[j].cmd = "Dylib"}} :
              d \in {o \in ObjectDatas : o.kind = "macho"}}

\* The names in the table of the triple, and the required ones among them.
AllowedDylibNames ==
    {allowed_dylibs_for_triple(locals.triple)[i].name :
        i \in DOMAIN allowed_dylibs_for_triple(locals.triple)}

RequiredDylibNames ==
    {allowed_dylibs_for_triple(locals.triple)[i].name :
        i \in {j \in DOMAIN allowed_dylibs_for_triple(locals.triple) :
                  allowed_dylibs_for_triple(locals.triple)[j].required}}

RequiredDylibError(name) == "required library dependency " \o name \o " not seen"

\* C22: when validate_distribution returns its list, seen_dylibs holds the
\* names that a Mach-O file of the archive, an entry or a member of a static
\* library, loads and that the table of the triple has, and no other name;
\* the list has one 'required library dependency ... not seen' error for
\* every required entry of the table whose name is not in seen_dylibs, none
\* for the other names, and none when the triple has no table.
C22_RequiredDylibsSeen ==
    pc = "done" /\ Unwrap(result).status = "ok"
        => /\ locals.context.seen_dylibs = LoadedDylibs \cap AllowedDylibNames
           /\ \A name \in RequiredDylibNames :
                 Count(Unwrap(result).errors, RequiredDylibError(name))
                     = IF name \in locals.context.seen_dylibs THEN 0 ELSE 1
           /\ \A e \in Range(Unwrap(result).errors) :
                 StartsWith(e, "required library dependency ")
                     => \E name \in RequiredDylibNames : e = RequiredDylibError(name)

\* A list was returned for an archive where a library loads libSystem and a
\* member of a static library names libz and a library off the table: the two
\* are in seen_dylibs and not reported, the third is not in seen_dylibs, and a
\* required library nothing loads is reported.
C22_Witness ==
    /\ pc = "done"
    /\ Unwrap(result).status = "ok"
    /\ {"/usr/lib/libSystem.B.dylib", "/usr/lib/libz.1.dylib", "/usr/lib/libfoo.dylib"}
          \subseteq LoadedDylibs
    /\ locals.context.seen_dylibs = {"/usr/lib/libSystem.B.dylib", "/usr/lib/libz.1.dylib"}
    /\ RequiredDylibError("/usr/lib/libz.1.dylib") \notin Range(Unwrap(result).errors)
    /\ RequiredDylibError("/usr/lib/libedit.3.dylib") \in Range(Unwrap(result).errors)

-----------------------------------------------------------------------------
(* The extension modules a distribution is to have.                        *)

ExtReturned == extPc = "done"

ExtErrors == Unwrap(extResult).errors

\* The operating system a triple is for.
ExtOsFamily(triple) ==
    CASE Contains(triple, "-apple-ios") -> "ios"
      [] Contains(triple, "-apple-darwin") -> "macos"
      [] Contains(triple, "-unknown-linux-") -> "linux"
      [] Contains(triple, "-pc-windows-") -> "windows"
      [] OTHER -> "other"

ExtIsMusl(triple) == Contains(triple, "-unknown-linux-musl")

\* The set the call compares the modules with.
ExtExpected ==
    WantedExtensions(extArgs.python_major_minor, extArgs.target_triple, extArgs.static_crt)

\* One error for every module that is there and not expected, one for every
\* module that is expected and not there, no other error, and no error at all
\* exactly when the two sets are the same.
ExtErrorsAreTheDifferences ==
    /\ \A name \in extArgs.have_extensions \cup ExtExpected :
          /\ Count(ExtErrors, "extra/unknown extension module: " \o name)
                = IF name \in extArgs.have_extensions \ ExtExpected THEN 1 ELSE 0
          /\ Count(ExtErrors, "missing extension module: " \o name)
                = IF name \in ExtExpected \ extArgs.have_extensions THEN 1 ELSE 0
    /\ Len(ExtErrors) = Cardinality(extArgs.have_extensions \ ExtExpected)
                           + Cardinality(ExtExpected \ extArgs.have_extensions)
    /\ ExtErrors = <<>> <=> extArgs.have_extensions = ExtExpected

\* C23 as the specification has it: for every target that is not an iOS one,
\* validate_extension_modules reports one error for every extra module and
\* one for every missing module, none exactly when the modules are the
\* expected ones, and the expected set is the same for two targets of the
\* same operating system with the same Python version and the same CRT.
C23_ExpectedByFamilyAndCrt ==
    ExtReturned /\ ExtOsFamily(extArgs.target_triple) # "ios"
        => /\ Unwrap(extResult).status = "ok"
           /\ ExtErrorsAreTheDifferences
           /\ \A t \in ExtTriples :
                 ExtOsFamily(t) = ExtOsFamily(extArgs.target_triple)
                     => WantedExtensions(extArgs.python_major_minor, t, extArgs.static_crt)
                            = ExtExpected

\* C23, amended: for a target that is not an iOS one and a Python version
\* from 3.9 to 3.14, validate_extension_modules reports one error for every
\* extra module and one for every missing module, and none exactly when the
\* modules are the expected ones; the expected set is the same for two
\* targets of the same operating system that are both musl targets or both
\* not, with the same Python version and, on Windows, the same CRT.  For
\* another Python version the call panics; for an iOS target it reports
\* nothing.
C23_ExpectedByFamilyAndLibc ==
    ExtReturned
        => IF ExtOsFamily(extArgs.target_triple) = "ios"
           THEN Unwrap(extResult) = [status |-> "ok", errors |-> <<>>]
           ELSE IF extArgs.python_major_minor \notin PythonVersions
           THEN Unwrap(extResult).status = "panic"
           ELSE /\ Unwrap(extResult).status = "ok"
                /\ ExtErrorsAreTheDifferences
                /\ \A t \in ExtTriples, s \in BOOLEAN :
                      /\ ExtOsFamily(t) = ExtOsFamily(extArgs.target_triple)
                      /\ ExtIsMusl(t) = ExtIsMusl(extArgs.target_triple)
                      /\ ExtOsFamily(t) = "windows" => s = extArgs.static_crt
                      => WantedExtensions(extArgs.python_major_minor, t, s) = ExtExpected

\* The call returned for a musl target and Python 3.9 with ossaudiodev among
\* the modules and _crypt not: the first is reported as extra, the second as
\* missing, and the gnu target of the same system expects ossaudiodev.
C23_Witness ==
    /\ ExtReturned
    /\ Unwrap(extResult).status = "ok"
    /\ extArgs.target_triple = "x86_64-unknown-linux-musl"
    /\ extArgs.python_major_minor = "3.9"
    /\ ExtErrors = <<"extra/unknown extension module: ossaudiodev",
                     "missing extension module: _crypt">>
    /\ "ossaudiodev" \in WantedExtensions("3.9", "x86_64-unknown-linux-gnu", extArgs.static_crt)

-----------------------------------------------------------------------------
(* The shared libraries of the extension modules.                          *)

\* The extension modules of the metadata of the first entry.
Extensions == Entries[1].data.json.build_info.extensions

\* The module is expected to be a shared library: the build is not a static
\* one (is_static of validate_distribution, which holds for the musl triples),
\* the variant is not in the core, and the target is a Windows one or the name
\* is on the list of the shared extensions.
ExpectedShared(name, ext) ==
    /\ ~IsStatic(locals.triple)
    /\ ~ext.in_core
    /\ (Contains(locals.triple, "windows") \/ name \in SHARED_LIBRARY_EXTENSIONS)

\* python/<path> is the path of an entry of the archive.
SharedLibInArchive(ext) ==
    \E k \in 1..Len(Entries) : Entries[k].path = "python/" \o Unwrap(ext.shared_lib)

\* The three errors about the shared library of a module.
MissingSharedLibError(name, shared_lib) ==
    "extension module " \o name \o " references missing shared library path " \o shared_lib

NoSharedLibError(name) == "extension module " \o name \o " does not have a shared library"

UnexpectedSharedLibError(name) ==
    "extension module " \o name \o " contains a shared library unexpectedly"

\* The variants of a module that call for each of the errors.
VariantsMissingSharedLib(name, shared_lib) ==
    {v \in DOMAIN Extensions[name] :
        /\ Extensions[name][v].shared_lib = Some(shared_lib)
        /\ ~SharedLibInArchive(Extensions[name][v])}

VariantsWithoutSharedLib(name) ==
    {v \in DOMAIN Extensions[name] :
        ExpectedShared(name, Extensions[name][v]) /\ ~IsSome(Extensions[name][v].shared_lib)}

VariantsUnexpectedlyShared(name) ==
    {v \in DOMAIN Extensions[name] :
        ~ExpectedShared(name, Extensions[name][v]) /\ IsSome(Extensions[name][v].shared_lib)}

\* The variant is as the claim wants it.
SharedLibAsExpected(name, ext) ==
    \/ ExpectedShared(name, ext) /\ IsSome(ext.shared_lib) /\ SharedLibInArchive(ext)
    \/ ~ExpectedShared(name, ext) /\ ~IsSome(ext.shared_lib)

-----------------------------------------------------------------------------
(* The errors of the analysis against the SDKs.                            *)

ResolverReturnedOk == sdkPc = "done" /\ Unwrap(sdkResult).status = "ok"

\* The errors the call added to those of the context.
ResolverErrors ==
    SubSeq(Unwrap(sdkResult).context.errors, Len(sdkArgs.context.errors) + 1,
           Len(Unwrap(sdkResult).context.errors))

\* The SDKs of the index whose version is at least the minimum.
SdksAtLeastMinimum ==
    {i \in DOMAIN sdkArgs.self.sdks :
        /\ IsSome(sdkArgs.self.sdks[i].version)
        /\ IsSome(SdkNormalizedVersion(Unwrap(sdkArgs.self.sdks[i].version)))
        /\ SemverAtLeast(Unwrap(SdkNormalizedVersion(Unwrap(sdkArgs.self.sdks[i].version))),
                         sdkArgs.minimum_sdk)}

\* Those among them that are not the 10.9 SDK.
QualifyingSdks == {i \in SdksAtLeastMinimum : Unwrap(sdkArgs.self.sdks[i].version) # "10.9"}

StrongLibraries == sdkArgs.context.macho_undefined_symbols_strong.libraries

WeakLibraries == sdkArgs.context.macho_undefined_symbols_weak.libraries

\* The libraries with strong references whose name is an absolute path.
AbsoluteLibraries == {lib \in DOMAIN StrongLibraries : StartsWith(lib, "/")}

\* The paths that refer to a library.
ReferencingPaths(lib) ==
    UNION {StrongLibraries[lib].symbols[x] : x \in DOMAIN StrongLibraries[lib].symbols}

\* The SDK has the text stub of the library.
ManifestExists(i, lib) ==
    Unwrap(tbd_relative_path(lib)) \in DOMAIN sdkArgs.self.sdks[i].files

\* The symbols of the text stub of the library for the target of the triple,
\* with those of the libraries it re-exports.
ManifestSymbols(i, lib) ==
    MapGetOr(Unwrap(ExpandFileReferences(
                        Unwrap(TbdFromPath(sdkArgs.self.sdks[i],
                                           Unwrap(tbd_relative_path(lib)))),
                        sdkArgs.self.sdks[i])).symbols,
             SdkSymbolTarget, {})

MissingSymbolError(path, lib, symbol, i) ==
    path \o " references symbol " \o lib \o ":" \o symbol
        \o " which doesn't exist in SDK " \o sdkArgs.self.sdks[i].path

MissingLibraryError(lib, i, path) ==
    "library " \o lib \o " does not exist in SDK " \o Unwrap(sdkArgs.self.sdks[i].version)
        \o "; " \o path \o " will likely fail to load"

\* What is to be reported for a library and an SDK: (symbol, path) for a
\* symbol the text stub does not have and a path that refers to it, or
\* ("", path) for a path that refers to a library the SDK does not have.
ReportsOf(i, lib) ==
    IF ManifestExists(i, lib)
    THEN {r \in (DOMAIN StrongLibraries[lib].symbols) \X ReferencingPaths(lib) :
             /\ r[1] \notin ManifestSymbols(i, lib)
             /\ r[2] \in StrongLibraries[lib].symbols[r[1]]}
    ELSE {<<"", p>> : p \in ReferencingPaths(lib)}

\* C25: when validate_context returns Ok on an index with an SDK at or above
\* the minimum, then for every library with strong references whose name is
\* an absolute path and every SDK at or above the minimum other than 10.9:
\* if the SDK has the text stub of the library, the errors hold one 'references
\* symbol' error for every symbol the stub does not have for the target and
\* every path that refers to it, none for the symbols it has, and no 'does
\* not exist in SDK' error; if not, they hold one 'does not exist in SDK'
\* error for every path that refers to the library and no 'references symbol'
\* error.  The call adds no other error: none for a library whose name is not
\* an absolute path, none for a weak reference.
C25_SdkErrorsPerSymbolAndPath ==
    ResolverReturnedOk /\ SdksAtLeastMinimum # {}
        => /\ \A lib \in AbsoluteLibraries, i \in QualifyingSdks :
                 /\ \A x \in DOMAIN StrongLibraries[lib].symbols, p \in ReferencingPaths(lib) :
                       Count(ResolverErrors, MissingSymbolError(p, lib, x, i))
                           = IF <<x, p>> \in ReportsOf(i, lib) THEN 1 ELSE 0
                 /\ \A p \in ReferencingPaths(lib) :
                       Count(ResolverErrors, MissingLibraryError(lib, i, p))
                           = IF ManifestExists(i, lib) THEN 0 ELSE 1
           /\ Len(ResolverErrors)
                 = Cardinality(UNION {{<<lib, i, r>> : r \in ReportsOf(i, lib)} :
                                         <<lib, i>> \in AbsoluteLibraries \X QualifyingSdks})
           /\ \A e \in Range(ResolverErrors) :
                 /\ \A lib \in DOMAIN StrongLibraries \ AbsoluteLibraries : ~Contains(e, lib)
                 /\ \A lib \in DOMAIN WeakLibraries :
                       \A x \in DOMAIN WeakLibraries[lib].symbols :
                          ~Contains(e, lib \o ":" \o x \o " ")

\* validate_context returned Ok for libSystem, libz, libpython by its
\* @executable_path name and a weak reference, against the SDKs 10.15 and
\* 11.0 for aarch64-apple-darwin: _getentropy, which the stub of 11.0 lacks, is
\* reported for its two paths and _malloc is not; libz, which 10.15 lacks, is
\* reported for its one path.
C25_Witness ==
    /\ ResolverReturnedOk
    /\ sdkArgs.triple = "aarch64-apple-darwin"
    /\ \E i, k \in QualifyingSdks :
          /\ sdkArgs.self.sdks[i].version = Some("11.0")
          /\ sdkArgs.self.sdks[k].version = Some("10.15")
          /\ ManifestExists(i, SdkLibSystem)
          /\ ~ManifestExists(k, "/usr/lib/libz.1.dylib")
          /\ MissingSymbolError(ResolverPython, SdkLibSystem, "_getentropy", i)
                \in Range(ResolverErrors)
          /\ MissingSymbolError(ResolverLibpython, SdkLibSystem, "_getentropy", i)
                \in Range(ResolverErrors)
          /\ MissingSymbolError(ResolverPython, SdkLibSystem, "_malloc", i)
                \notin Range(ResolverErrors)
          /\ Count(ResolverErrors,
                   MissingLibraryError("/usr/lib/libz.1.dylib", k, ResolverLibpython)) = 1
    /\ "@executable_path/../lib/libpython3.12.dylib" \in DOMAIN StrongLibraries
    /\ SdkLibSystem \in DOMAIN WeakLibraries

-----------------------------------------------------------------------------
(* The SDKs the analysis looks at.                                         *)

\* The errors that name an SDK of the index, by its path or by its version.
SdkErrorsOf(i) ==
    SelectSeq(ResolverErrors, LAMBDA e :
        \/ EndsWith(e, " which doesn't exist in SDK " \o sdkArgs.self.sdks[i].path)
        \/ Contains(e, " does not exist in SDK "
                          \o (IF IsSome(sdkArgs.self.sdks[i].version)
                              THEN Unwrap(sdkArgs.self.sdks[i].version) ELSE "99.99")
                          \o "; "))

\* The number of reports that are due for an SDK, over the libraries whose
\* name is an absolute path.
ReportsDue(i) ==
    Cardinality(UNION {{<<lib, r>> : r \in ReportsOf(i, lib)} : lib \in AbsoluteLibraries})

\* C26: when validate_context returns Ok on an index with an SDK at or above
\* the minimum, an SDK of the index that has no version, whose version is
\* below the minimum, or that is the 10.9 SDK has no error of its own, and
\* every other SDK of the index has as many errors as the libraries with an
\* absolute path have missing symbols and missing text stubs in it.
C26_CheckedSdksAreAtLeastMinimum ==
    ResolverReturnedOk /\ SdksAtLeastMinimum # {}
        => \A i \in DOMAIN sdkArgs.self.sdks :
              Len(SdkErrorsOf(i)) = IF i \in QualifyingSdks THEN ReportsDue(i) ELSE 0

\* validate_context returned Ok for a minimum of 10.9 on an index with the
\* SDKs 10.9, 10.15 and 11.0 and a context that refers to libedit, which no SDK
\* has: 10.15 and 11.0 have errors, 10.9 has none.
C26_Witness ==
    /\ ResolverReturnedOk
    /\ sdkArgs.minimum_sdk = <<10, 9, 0>>
    /\ "/usr/lib/libedit.3.dylib" \in AbsoluteLibraries
    /\ \E i, j, k \in SdksAtLeastMinimum :
          /\ sdkArgs.self.sdks[i].version = Some("10.9")
          /\ sdkArgs.self.sdks[j].version = Some("10.15")
          /\ sdkArgs.self.sdks[k].version = Some("11.0")
          /\ i \notin QualifyingSdks
          /\ SdkErrorsOf(i) = <<>>
          /\ Len(SdkErrorsOf(j)) = 2
          /\ Len(SdkErrorsOf(k)) = 2

-----------------------------------------------------------------------------
(* The libraries of the undefined symbols of a Mach-O file.                *)

\* The names of the Dylib load commands of the file, in the order of the
\* load commands.
MachoDylibNames ==
    LET dylibs == SelectSeq(machoArgs.header.commands, LAMBDA c : c.cmd = "Dylib")
    IN [i \in 1..Len(dylibs) |-> dylibs[i].name]

\* The undefined symbols of the symbol tables of the file, in their order.
MachoUndefinedEntries ==
    LET symtabs == SelectSeq(machoArgs.header.commands, LAMBDA c : c.cmd = "Symtab")
    IN SelectSeq(Flatten([i \in 1..Len(symtabs) |-> symtabs[i].symbols]),
                 LAMBDA x : x.n_undf)

\* validate_macho gets to the loop over the undefined symbols: the versions
\* of PYTHON.json, the header and the load commands can be read, the triple
\* is an Apple one and the file is not an object file.
MachoResolves ==
    /\ machoPc = "done"
    /\ IsSome(SemverParse(machoArgs.advertised[1] \o ".0"))
    /\ IsSome(SemverParse(machoArgs.advertised[2] \o ".0"))
    /\ ~machoArgs.header.corrupt
    /\ IsSome(MachoWantedCpuType(machoArgs.target_triple))
    /\ \A i \in DOMAIN machoArgs.header.commands : machoArgs.header.commands[i].cmd # "Corrupt"
    /\ machoArgs.header.filetype # "MH_OBJECT"

\* The (library, symbol) pairs of a table that the path of the file is
\* recorded for.
MachoRecordedIn(table) ==
    {r \in UNION {{<<lib, x>> : x \in DOMAIN table.libraries[lib].symbols} :
                    lib \in DOMAIN table.libraries} :
        machoArgs.path \in table.libraries[r[1]].symbols[r[2]]}

MachoRecordedStrong ==
    MachoRecordedIn(Unwrap(machoResult).context.macho_undefined_symbols_strong)

MachoRecordedWeak ==
    MachoRecordedIn(Unwrap(machoResult).context.macho_undefined_symbols_weak)

\* C27, as stated: where validate_macho gets to the undefined symbols, it
\* fails when and only when some undefined symbol has an ordinal other than
\* SELF_LIBRARY_ORDINAL that is greater than the number of Dylib load commands.
C27_OrdinalBeyondDylibsFails ==
    MachoResolves
        => (Unwrap(machoResult).status = "err"
               <=> \E i \in DOMAIN MachoUndefinedEntries :
                      /\ MachoUndefinedEntries[i].library_ordinal # SELF_LIBRARY_ORDINAL
                      /\ MachoUndefinedEntries[i].library_ordinal > Len(MachoDylibNames))

\* C27: where validate_macho gets to the undefined symbols, it fails when and
\* only when some undefined symbol has an ordinal from 1 to
\* MAX_LIBRARY_ORDINAL - 1 that is greater than the number of Dylib load
\* commands; when it returns Ok, the (library, symbol) pairs recorded are the
\* n-th name of the Dylib load commands with the symbol, for every undefined
\* symbol of ordinal n from 1 to MAX_LIBRARY_ORDINAL - 1: a symbol of
\* ordinal SELF_LIBRARY_ORDINAL, or of an ordinal from MAX_LIBRARY_ORDINAL
\* on, is passed over and nothing is recorded for it.
C27_OrdinalResolvesToNthDylib ==
    MachoResolves
        => /\ Unwrap(machoResult).status = "err"
                <=> \E i \in DOMAIN MachoUndefinedEntries :
                       /\ MachoUndefinedEntries[i].library_ordinal # SELF_LIBRARY_ORDINAL
                       /\ MachoUndefinedEntries[i].library_ordinal < MAX_LIBRARY_ORDINAL
                       /\ MachoUndefinedEntries[i].library_ordinal > Len(MachoDylibNames)
           /\ Unwrap(machoResult).status = "ok"
                => MachoRecordedStrong \cup MachoRecordedWeak
                      = {<<MachoDylibNames[MachoUndefinedEntries[i].library_ordinal],
                           MachoUndefinedEntries[i].name>> :
                            i \in {k \in DOMAIN MachoUndefinedEntries :
                                      /\ MachoUndefinedEntries[k].library_ordinal
                                            # SELF_LIBRARY_ORDINAL
                                      /\ MachoUndefinedEntries[k].library_ordinal
                                            < MAX_LIBRARY_ORDINAL}}

\* validate_macho returned Ok for a file that loads libfoo, which no
\* allow-list has, and then libSystem, and whose symbols are bound to the
\* second library: they are recorded for libSystem.
C27_Witness ==
    /\ MachoResolves
    /\ Unwrap(machoResult).status = "ok"
    /\ MachoDylibNames = <<"/usr/lib/libfoo.dylib", "/usr/lib/libSystem.B.dylib">>
    /\ \E i \in DOMAIN MachoUndefinedEntries : MachoUndefinedEntries[i].library_ordinal = 2
    /\ <<"/usr/lib/libSystem.B.dylib", "_tputs">> \in MachoRecordedStrong
    /\ (machoArgs.path \o " loads illegal library /usr/lib/libfoo.dylib")
          \in Range(MachoErrors)

-----------------------------------------------------------------------------
(* The two tables of undefined symbols of a Mach-O file.                   *)

\* The (library, symbol) pairs of the undefined symbols whose ordinal is that
\* of a Dylib load command of the file, by the N_WEAK_REF bit.
MachoBound(weak) ==
    {<<MachoDylibNames[MachoUndefinedEntries[i].library_ordinal],
       MachoUndefinedEntries[i].name>> :
         i \in {k \in DOMAIN MachoUndefinedEntries :
                   /\ MachoUndefinedEntries[k].library_ordinal \in DOMAIN MachoDylibNames
                   /\ MachoUndefinedEntries[k].library_ordinal < MAX_LIBRARY_ORDINAL
                   /\ MachoUndefinedEntries[k].weak = weak}}

\* The paths the two tables of the returned context hold.
MachoRecordedPaths ==
    {t[3] : t \in Triples(Unwrap(machoResult).context.macho_undefined_symbols_strong)
                    \cup Triples(Unwrap(machoResult).context.macho_undefined_symbols_weak)}

\* C28: whenever validate_macho returns Ok, every undefined symbol that the
\* loop over the undefined symbols resolves to a library (the file is not an
\* object file, and the ordinal of the symbol is that of a Dylib load command)
\* is, with the path of the file and under the name of the library, in the
\* weak table if it has the N_WEAK_REF bit and in the strong table if not, and
\* in no case in both; the tables hold nothing else, and nothing at all for an
\* object file, whose symbols the loop does not resolve.
C28_WeakOrStrongTable ==
    MachoReturnedOk
        => IF machoArgs.header.filetype # "MH_OBJECT"
           THEN /\ MachoRecordedStrong = MachoBound(FALSE)
                /\ MachoRecordedWeak = MachoBound(TRUE)
                /\ MachoRecordedStrong \cap MachoRecordedWeak = {}
                /\ MachoRecordedPaths \subseteq {machoArgs.path}
           ELSE MachoRecordedPaths = {}

\* validate_macho returned Ok for an executable that loads one library and
\* has _malloc without and _getentropy with the N_WEAK_REF bit, both of
\* ordinal 1: the first is in the strong table alone, the second in the weak
\* table alone.
C28_Witness ==
    /\ MachoReturnedOk
    /\ machoArgs.header.filetype = "MH_EXECUTE"
    /\ Len(MachoDylibNames) = 1
    /\ <<MachoDylibNames[1], "_malloc">> \in MachoRecordedStrong \ MachoRecordedWeak
    /\ <<MachoDylibNames[1], "_getentropy">> \in MachoRecordedWeak \ MachoRecordedStrong

-----------------------------------------------------------------------------
(* The build annotations of the libraries an ELF file needs.               *)

\* The names of the DT_NEEDED entries of the file.
ElfNeededNames == {ElfNeededAt(p) : p \in ElfNeededPositions}

\* The number of DT_NEEDED entries of the file of a name.
ElfTimesNeeded(lib) == Cardinality({p \in ElfNeededPositions : ElfNeededAt(p) = lib})

\* The names that need no annotation: those of libpython, of the dynamic
\* linker, of libc and of libgcc_s.
ElfExempt(lib) ==
    \/ Contains(lib, "libpython")
    \/ \E prefix \in {"ld-linux", "ld64.so", "ld.so", "libc.so", "libgcc_s.so"} :
          StartsWith(lib, prefix)

\* The stems of a name: what stands between its leading "lib" and a ".so"
\* that no other ".so" follows.
ElfStems(lib) ==
    {SubSeq(lib, 4, k - 1) :
        k \in {i \in 4..(Len(lib) - 2) :
                  /\ SubSeq(lib, i, i + 2) = ".so"
                  /\ ~Contains(SubSeq(lib, i + 3, Len(lib)), ".so")}}

\* The names of the link records marked system, of the core and of the
\* variants of the extensions.
ElfSystemLinkNames ==
    LET core == elfArgs.json.build_info.core.links
        extensions == elfArgs.json.build_info.extensions
        marked(links) == {links[i].name : i \in {j \in DOMAIN links : links[j].system = Some(TRUE)}}
    IN marked(core)
         \cup UNION {marked(extensions[e][v].links) :
                        <<e, v>> \in UNION {{<<x, y>> : y \in DOMAIN extensions[x]} :
                                               x \in DOMAIN extensions}}

ElfNoAnnotationError(lib) ==
    elfArgs.path \o " library load of " \o lib
        \o " does not have system link build annotation"

ElfNoLibError(lib) ==
    elfArgs.path \o " library load of " \o lib \o " does not begin with lib"

ElfNoSoError(lib) ==
    elfArgs.path \o " library load of " \o lib \o " does not have .so extension"

\* C29: whenever validate_elf returns Ok, for every name of a DT_NEEDED entry:
\* a name of libpython, of the dynamic linker, of libc.so or of libgcc_s.so
\* gets none of the three errors; any other name that begins with "lib" and
\* has a ".so" gets the missing-annotation error, once for each of its
\* entries, when and only when its stem is not the name of a link marked
\* system, and neither of the other two; a name that does not begin with
\* "lib" gets the 'does not begin with lib' error alone, and one that begins
\* with "lib" and has no ".so" the 'does not have .so extension' error alone.
C29_SystemLinkAnnotations ==
    ElfReturnedOk
        => \A lib \in ElfNeededNames :
              /\ Count(ElfErrors, ElfNoAnnotationError(lib))
                    = IF /\ ~ElfExempt(lib)
                         /\ StartsWith(lib, "lib")
                         /\ ElfStems(lib) # {}
                         /\ ElfStems(lib) \cap ElfSystemLinkNames = {}
                      THEN ElfTimesNeeded(lib) ELSE 0
              /\ Count(ElfErrors, ElfNoLibError(lib))
                    = IF ~ElfExempt(lib) /\ ~StartsWith(lib, "lib")
                      THEN ElfTimesNeeded(lib) ELSE 0
              /\ Count(ElfErrors, ElfNoSoError(lib))
                    = IF ~ElfExempt(lib) /\ StartsWith(lib, "lib") /\ ~Contains(lib, ".so")
                      THEN ElfTimesNeeded(lib) ELSE 0

\* validate_elf returned Ok for a file that needs libiso.solver.so.1 and,
\* twice, libm.so.6, with a PYTHON.json whose core links mark iso.solver and m
\* as system: neither is reported.  (The stem of the first name ends at its
\* last ".so".)
C29_Witness ==
    /\ ElfReturnedOk
    /\ ElfNeededNames = {"libiso.solver.so.1", "libm.so.6"}
    /\ ElfStems("libiso.solver.so.1") = {"iso.solver"}
    /\ {"iso.solver", "m"} \subseteq ElfSystemLinkNames
    /\ ElfNoAnnotationError("libiso.solver.so.1") \notin Range(ElfErrors)
    /\ ElfNoAnnotationError("libm.so.6") \notin Range(ElfErrors)

-----------------------------------------------------------------------------
(* The launchers python and python3 of the archive.                        *)

BinPython == "python/install/bin/python"

BinPython3 == "python/install/bin/python3"

\* The entries after the first at a path, and those of them that are links.
LauncherEntries(path) == {k \in 2..Len(Entries) : Entries[k].path = path}

LauncherLinks(path) == {k \in LauncherEntries(path) : IsSome(Entries[k].link_name)}

\* The name of the last link at a path.
LauncherLinkName(path) ==
    Unwrap(Entries[CHOOSE k \in LauncherLinks(path) :
                      \A j \in LauncherLinks(path) : j <= k].link_name)

\* The launcher at a path is in the archive, and as links alone.
LauncherIsLink(path) ==
    LauncherEntries(path) # {} /\ LauncherLinks(path) = LauncherEntries(path)

\* The errors of the list that are about the launchers.
LauncherErrors ==
    SelectSeq(Unwrap(result).errors, LAMBDA e :
        \/ e \in {BinPython \o " is not a symlink", BinPython3 \o " is not a symlink",
                  "install/bin/python and python3 entries missing",
                  "install/bin/python symlink missing",
                  "install/bin/python3 symlink missing"}
        \/ StartsWith(e, "symlink targets of install/bin/python and python3 vary: "))

\* The errors that are due for the launchers, but for their order.
LauncherErrorsDue ==
    [k \in 1..Cardinality(LauncherEntries(BinPython) \ LauncherLinks(BinPython)) |->
        BinPython \o " is not a symlink"]
    \o [k \in 1..Cardinality(LauncherEntries(BinPython3) \ LauncherLinks(BinPython3)) |->
           BinPython3 \o " is not a symlink"]
    \o (CASE LauncherLinks(BinPython) = {} /\ LauncherLinks(BinPython3) = {} ->
                IF Contains(locals.triple, "-windows-") THEN <<>>
                ELSE <<"install/bin/python and python3 entries missing">>
           [] LauncherLinks(BinPython) = {} /\ LauncherLinks(BinPython3) # {} ->
                <<"install/bin/python symlink missing">>
           [] LauncherLinks(BinPython) # {} /\ LauncherLinks(BinPython3) = {} ->
                <<"install/bin/python3 symlink missing">>
           [] OTHER ->
                IF LauncherLinkName(BinPython) = LauncherLinkName(BinPython3) THEN <<>>
                ELSE <<"symlink targets of install/bin/python and python3 vary: "
                          \o LauncherLinkName(BinPython) \o " !+ "
                          \o LauncherLinkName(BinPython3)>>)

\* C30: when validate_distribution returns its list, the list has no error
\* about the launchers when and only when python/install/bin/python and
\* python/install/bin/python3 are both in the archive, as links alone, and
\* the names of the two links (the last at each path) are equal, or the
\* target is a Windows one and neither path is in the archive; and the errors
\* about the launchers are one 'is not a symlink' for every entry at one of
\* the paths that is not a link, and one of 'entries missing' (not on
\* Windows), 'python symlink missing', 'python3 symlink missing' and 'vary'
\* when no path, python3 alone or python alone has a link, or the names differ.
C30_LaunchersAreEqualLinks ==
    pc = "done" /\ Unwrap(result).status = "ok"
        => /\ LauncherErrors = <<>>
                <=> \/ /\ LauncherIsLink(BinPython)
                       /\ LauncherIsLink(BinPython3)
                       /\ LauncherLinkName(BinPython) = LauncherLinkName(BinPython3)
                    \/ /\ Contains(locals.triple, "-windows-")
                       /\ LauncherEntries(BinPython) = {}
                       /\ LauncherEntries(BinPython3) = {}
           /\ SameEntries(LauncherErrors, LauncherErrorsDue)

\* A list was returned for a Linux archive with python -> python3.9 and
\* python3 -> python3.9: it has no error about the launchers.
C30_Witness ==
    /\ pc = "done"
    /\ Unwrap(result).status = "ok"
    /\ ~Contains(locals.triple, "-windows-")
    /\ LauncherIsLink(BinPython)
    /\ LauncherIsLink(BinPython3)
    /\ LauncherLinkName(BinPython) = "python3.9"
    /\ LauncherLinkName(BinPython3) = "python3.9"
    /\ LauncherErrors = <<>>

-----------------------------------------------------------------------------
(* The specifications.                                                     *)

SymbolsSpecInit == SymbolsInit /\ ContextIdle /\ VersionIdle /\ ElfIdle /\ MachoIdle /\ SdksIdle /\ DistIdle /\ CommandIdle /\ PairIdle /\ ExtensionsIdle
SpecSymbols == SymbolsSpecInit /\ [][SymbolsNext]_vars

ContextSpecInit == ContextInit /\ SymbolsIdle /\ VersionIdle /\ ElfIdle /\ MachoIdle /\ SdksIdle /\ DistIdle /\ CommandIdle /\ PairIdle /\ ExtensionsIdle
SpecContext == ContextSpecInit /\ [][ContextNext]_vars

VersionSpecInit == VersionInit /\ SymbolsIdle /\ ContextIdle /\ ElfIdle /\ MachoIdle /\ SdksIdle /\ DistIdle /\ CommandIdle /\ PairIdle /\ ExtensionsIdle
SpecVersion == VersionSpecInit /\ [][VersionNext]_vars

ElfSpecInit == ElfInit /\ SymbolsIdle /\ ContextIdle /\ VersionIdle /\ MachoIdle /\ SdksIdle /\ DistIdle /\ CommandIdle /\ PairIdle /\ ExtensionsIdle
SpecElf == ElfSpecInit /\ [][ElfNext]_vars

MachoSpecInit == MachoInit /\ SymbolsIdle /\ ContextIdle /\ VersionIdle /\ ElfIdle /\ SdksIdle /\ DistIdle /\ CommandIdle /\ PairIdle /\ ExtensionsIdle
SpecMacho == MachoSpecInit /\ [][MachoNext]_vars

SdksSpecInit ==
    /\ SdksInit /\ SymbolsIdle /\ ContextIdle /\ VersionIdle /\ ElfIdle /\ MachoIdle
    /\ DistIdle /\ CommandIdle /\ PairIdle /\ ExtensionsIdle
SpecSdks == SdksSpecInit /\ [][SdksNext]_vars

ResolverSpecInit ==
    /\ ResolverInit /\ SymbolsIdle /\ ContextIdle /\ VersionIdle /\ ElfIdle /\ MachoIdle
    /\ DistIdle /\ CommandIdle /\ PairIdle /\ ExtensionsIdle
SpecResolver == ResolverSpecInit /\ [][SdksNext]_vars

DistSpecInit ==
    /\ DistInit /\ SymbolsIdle /\ ContextIdle /\ VersionIdle /\ ElfIdle /\ MachoIdle
    /\ SdksIdle /\ CommandIdle /\ PairIdle /\ ExtensionsIdle
SpecDistribution == DistSpecInit /\ [][DistNext]_vars

CommandSpecInit ==
    /\ CommandInit /\ SymbolsIdle /\ ContextIdle /\ VersionIdle /\ ElfIdle /\ MachoIdle
    /\ SdksIdle /\ DistIdle /\ PairIdle /\ ExtensionsIdle
SpecCommand == CommandSpecInit /\ [][CommandNext]_vars

PairSpecInit ==
    /\ PairInit /\ SymbolsIdle /\ ContextIdle /\ VersionIdle /\ ElfIdle /\ MachoIdle
    /\ SdksIdle /\ CommandIdle /\ ExtensionsIdle
SpecPair == PairSpecInit /\ [][PairNext]_vars

ExtensionsSpecInit ==
    /\ ExtensionsInit /\ SymbolsIdle /\ ContextIdle /\ VersionIdle /\ ElfIdle /\ MachoIdle
    /\ SdksIdle /\ DistIdle /\ CommandIdle /\ PairIdle
SpecExtensions == ExtensionsSpecInit /\ [][ExtensionsNext]_vars

=============================================================================
